---- MODULE Spec2Model ----
(***************************************************************************)
(* A model of mchanger (src/mchanger.c): the SCSI Medium Changer library   *)
(* and its command-line tool.                                              *)
(*                                                                         *)
(* The device is the environment: what it answers to READ ELEMENT STATUS,  *)
(* MODE SENSE and MOVE MEDIUM is drawn from bounded sets.  Every public    *)
(* operation is one action that runs the whole handler and records, in     *)
(* `log`, the commands the handler sent (in order) and, in `ret`, what it  *)
(* returned.  After a call the only step is Return, back to "idle".        *)
(***************************************************************************)
EXTENDS Integers, Sequences, FiniteSets, TLC

VARIABLES
    dev,    \* the attached changer: how it answers element discovery
    pc,     \* "idle" (no call running) or "done" (a call has just returned)
    call,   \* the operation last called, with its arguments and options
    map,    \* the ElementMap the call discovered (EmptyMap when it built none)
    st,     \* the occupancy the call read: [read, drive, slot]
    log,    \* the commands the call issued, oldest first
    ret,    \* the call's return value (API: MCHANGER_*, CLI: exit code)
    handle, \* the session's ChangerHandle, and where it is stored
    os,     \* what the session asked of the operating system, oldest first
    spc,    \* the session: "init", "open", "waiting", "closed", "closed2", "failed"
    sres,   \* the last session operation and its result
    inflight, \* commands handed to the transport and not yet concluded
    buf,    \* an element status page as the device returned it, byte by byte
    out     \* the MChangerElementStatus a status call filled in from it

callVars == <<dev, pc, call, map, st, log, ret>>
sessVars == <<handle, os, spc, sres, inflight>>
decVars == <<buf, out>>
vars == <<dev, pc, call, map, st, log, ret, handle, os, spc, sres, inflight, buf, out>>

----------------------------------------------------------------------------
(* Bounds of the model *)

\* most storage elements a modelled device declares or reports
MaxSlots == 2
\* most drives a modelled device reports
MaxDrives == 1
\* most storage descriptors a modelled device returns per storage-only query
PageMax == 1
MaxCommands == 2

----------------------------------------------------------------------------
(* Program constants *)

MCHANGER_OK == 0
MCHANGER_ERR_SCSI == -3
MCHANGER_ERR_INVALID == -4
MCHANGER_ERR_EMPTY == -6

\* uint16_t arithmetic
U16(x) == x % 65536

NULL == "NULL"
Handle == "changer"

----------------------------------------------------------------------------
(* Commands, as recorded in the log *)

\* a command sent through execute_cdb (or the host-OS eject), with its outcome
Cmd(c, a, b, d, ok) == [cmd |-> c, a |-> a, b |-> b, c |-> d, ok |-> ok]

\* READ ELEMENT STATUS: element type, start address, count
ResCmd(type, start, count, ok) == Cmd("READ_ELEMENT_STATUS", type, start, count, ok)
\* MODE SENSE(10), page 0x1D
ModeSenseCmd(ok) == Cmd("MODE_SENSE", 29, 0, 0, ok)
\* MOVE MEDIUM: transport, source, destination
MoveCmd(transport, source, dest, ok) == Cmd("MOVE_MEDIUM", transport, source, dest, ok)
\* TEST UNIT READY
TurCmd(ok) == Cmd("TEST_UNIT_READY", 0, 0, 0, ok)
\* INQUIRY
InquiryCmd(ok) == Cmd("INQUIRY", 0, 0, 0, ok)
\* the host-OS eject of a mounted volume (diskutil); not a SCSI command
HostEject(ok) == Cmd("HOST_EJECT", 0, 0, 0, ok)

IsMove(c) == c.cmd = "MOVE_MEDIUM"
IsHostEject(c) == c.cmd = "HOST_EJECT"
IsScsi(c) == c.cmd # "HOST_EJECT"

----------------------------------------------------------------------------
(* Element map discovery *)

EmptyMap == [transports |-> << >>, slots |-> << >>, drives |-> << >>, ie |-> << >>]

MapCount(m) == Len(m.transports) + Len(m.slots) + Len(m.drives) + Len(m.ie)

\* list.addrs[index - 1] for a 1-based index; the handlers check the index
\* first, and a read outside the list yields some value (here 0)
ElemAt(list, index) == IF index \in DOMAIN list THEN list[index] ELSE 0

\* the addresses first, first+1, ..., first+n-1
AddrRange(first, n) == [i \in 1..n |-> U16(first + i - 1)]

\* first n entries of a sequence
Take(s, n) == IF n >= Len(s) THEN s ELSE SubSeq(s, 1, n)

\* The device's answer to a storage-only READ ELEMENT STATUS(start, count):
\* the installed storage elements at or after start, at most count of them
\* and at most d.pageMax per answer.
StoragePage(d, start, count) ==
    LET from == SelectSeq(d.P, LAMBDA a : a >= start)
        n == IF count < d.pageMax THEN count ELSE d.pageMax
    IN Take(from, n)

\* variant: every page is asked for from the same start address
RECURSIVE Paginate_NoAdvance(_, _, _, _, _, _)
Paginate_NoAdvance(d, start_addr, remaining, slots, cmds, page) ==
    IF remaining = 0 THEN [slots |-> slots, cmds |-> cmds]
    ELSE LET ok == d.failPage # page
             resp == StoragePage(d, start_addr, remaining)
             added == Len(resp)
             sent == Append(cmds, ResCmd(2, start_addr, remaining, ok))
         IN IF ~ok THEN [slots |-> slots, cmds |-> sent]
            ELSE IF added = 0 THEN [slots |-> slots, cmds |-> sent]
            ELSE IF added >= remaining THEN [slots |-> slots \o resp, cmds |-> sent]
            ELSE Paginate_NoAdvance(d, start_addr, remaining - added,
                                    slots \o resp, sent, page + 1)

\* fetch_element_map, the pagination loop over storage-only queries
RECURSIVE Paginate(_, _, _, _, _, _)
Paginate(d, start_addr, remaining, slots, cmds, page) ==
    IF remaining = 0 THEN [slots |-> slots, cmds |-> cmds]
    ELSE LET ok == d.failPage # page
             resp == StoragePage(d, start_addr, remaining)
             added == Len(resp)
             sent == Append(cmds, ResCmd(2, start_addr, remaining, ok))
         IN IF ~ok THEN [slots |-> slots, cmds |-> sent]
            ELSE IF added = 0 THEN [slots |-> slots, cmds |-> sent]
            ELSE IF added >= remaining THEN [slots |-> slots \o resp, cmds |-> sent]
            ELSE Paginate(d, U16(start_addr + added), remaining - added,
                          slots \o resp, sent, page + 1)

\* variant: nothing is filled in
QuirkFill_NoFill(first_storage, num_storage, slots) == slots

\* fetch_element_map, the fill of missing trailing slots from MODE SENSE
QuirkFill(first_storage, num_storage, slots) ==
    IF Len(slots) < num_storage
    THEN LET expected_end == U16(first_storage + num_storage)
             actual_end == U16(first_storage + Len(slots))
         IN slots \o [i \in 1..(expected_end - actual_end) |-> actual_end + i - 1]
    ELSE slots

\* read_mode_sense_element as used by fetch_element_map: rc and the assignment
ReadModeSenseElement(d) ==
    IF ~d.msOk THEN [rc |-> 1, first_storage |-> 0, num_storage |-> 0]
    ELSE [rc |-> 0, first_storage |-> d.first, num_storage |-> d.num]

\* variant: FetchElementMap returning success without the count of elements
FetchElementMap_NoTotalCheck(d) ==
    LET all == ResCmd(0, 0, 65535, d.allOk)
        parsed == [transports |-> d.T, slots |-> d.S, drives |-> d.D, ie |-> d.IE]
    IN IF ~d.allOk THEN [rc |-> 1, map |-> EmptyMap, cmds |-> <<all>>]
       ELSE IF ~d.reported THEN [rc |-> 1, map |-> EmptyMap, cmds |-> <<all>>]
       ELSE LET assign == ReadModeSenseElement(d)
                ms == ModeSenseCmd(d.msOk)
            IN IF assign.rc = 0 /\ assign.num_storage > 0
               THEN LET pg == Paginate(d, assign.first_storage, assign.num_storage,
                                       << >>, <<all, ms>>, 1)
                        m == [parsed EXCEPT !.slots =
                                 QuirkFill(assign.first_storage, assign.num_storage, pg.slots)]
                    IN [rc |-> 0, map |-> m, cmds |-> pg.cmds]
               ELSE [rc |-> 0, map |-> parsed, cmds |-> <<all, ms>>]
\* fetch_element_map: [rc, map, cmds]
FetchElementMap(d) ==
    LET all == ResCmd(0, 0, 65535, d.allOk)
        parsed == [transports |-> d.T, slots |-> d.S, drives |-> d.D, ie |-> d.IE]
    IN IF ~d.allOk THEN [rc |-> 1, map |-> EmptyMap, cmds |-> <<all>>]
       ELSE IF ~d.reported THEN [rc |-> 1, map |-> EmptyMap, cmds |-> <<all>>]
       ELSE LET assign == ReadModeSenseElement(d)
                ms == ModeSenseCmd(d.msOk)
            IN IF assign.rc = 0 /\ assign.num_storage > 0
               THEN LET pg == Paginate(d, assign.first_storage, assign.num_storage,
                                       << >>, <<all, ms>>, 1)
                        m == [parsed EXCEPT !.slots =
                                 QuirkFill(assign.first_storage, assign.num_storage, pg.slots)]
                    IN [rc |-> IF MapCount(m) > 0 THEN 0 ELSE 1, map |-> m, cmds |-> pg.cmds]
               ELSE [rc |-> IF MapCount(parsed) > 0 THEN 0 ELSE 1,
                     map |-> parsed, cmds |-> <<all, ms>>]

----------------------------------------------------------------------------
(* The modelled devices *)

\* address of the first storage element of the modelled devices
FirstStorage == 1

TransportLists == {<< >>, <<16>>}
DriveLists == {AddrRange(32, n) : n \in 0..MaxDrives}
IELists == {<< >>, <<48>>}

\* A device: a capacity of num storage elements, inst of them installed, of
\* which the all-types status reports the first nAll; MODE SENSE (when it
\* answers) declares num; the storage-only query number fp fails (0: none).
\* reported: the all-types answer has a non-zero byte count (it always has
\* when it describes an element).
StorageShapes ==
    {sh \in [num : 0..MaxSlots, inst : 0..MaxSlots, nAll : 0..MaxSlots,
             ms : BOOLEAN, fp : 0..1] :
        sh.inst <= sh.num /\ sh.nAll <= sh.inst /\ (~sh.ms => sh.fp = 0)}

Devices ==
    {[allOk |-> TRUE, reported |-> r \/ Len(t) + Len(d) + Len(ie) + sh.nAll > 0,
      T |-> t, S |-> AddrRange(FirstStorage, sh.nAll), D |-> d, IE |-> ie,
      msOk |-> sh.ms, first |-> FirstStorage, num |-> sh.num,
      P |-> AddrRange(FirstStorage, sh.inst), pageMax |-> PageMax, failPage |-> sh.fp] :
        t \in TransportLists, d \in DriveLists, ie \in IELists, sh \in StorageShapes,
        r \in BOOLEAN}
    \cup
    {[allOk |-> FALSE, reported |-> FALSE, T |-> << >>, S |-> << >>, D |-> << >>, IE |-> << >>,
      msOk |-> FALSE, first |-> FirstStorage, num |-> 0,
      P |-> << >>, pageMax |-> PageMax, failPage |-> 0]}

----------------------------------------------------------------------------
(* Element status *)

NoStatus == [addr |-> 0, full |-> FALSE, valid_src |-> FALSE, src_addr |-> 0]
NoRead == [read |-> FALSE, drive |-> NoStatus, slot |-> NoStatus, seen |-> {}]

\* variant: an element without a descriptor reads as full
ElementStatusOf_AbsentFull(descs, addr) ==
    LET idx == {i \in DOMAIN descs : descs[i].addr = addr}
    IN IF idx = {} THEN [addr |-> addr, full |-> TRUE, valid_src |-> FALSE, src_addr |-> 0]
       ELSE LET i == CHOOSE j \in idx : \A k \in idx : k <= j
            IN [addr |-> addr, full |-> descs[i].full,
                valid_src |-> descs[i].svalid, src_addr |-> descs[i].src]

\* read_element_status_info, the descriptor scan for one element: the last
\* descriptor with that address decides; an absent element reads as empty
ElementStatusOf(descs, addr) ==
    LET idx == {i \in DOMAIN descs : descs[i].addr = addr}
    IN IF idx = {} THEN [addr |-> addr, full |-> FALSE, valid_src |-> FALSE, src_addr |-> 0]
       ELSE LET i == CHOOSE j \in idx : \A k \in idx : k <= j
            IN [addr |-> addr, full |-> descs[i].full,
                valid_src |-> descs[i].svalid, src_addr |-> descs[i].src]

\* read_element_status_info: [rc, drive, slot, cmds], and the addresses that
\* occurred in the response it scanned (seen)
ReadElementStatusInfo(resp, drive_addr, slot_addr) ==
    LET c == ResCmd(0, 0, 65535, resp.ok)
    IN IF ~resp.ok THEN [rc |-> 1, drive |-> NoStatus, slot |-> NoStatus, cmds |-> <<c>>,
                         seen |-> {}]
       ELSE [rc |-> 0, drive |-> ElementStatusOf(resp.descs, drive_addr),
             slot |-> ElementStatusOf(resp.descs, slot_addr), cmds |-> <<c>>,
             seen |-> {resp.descs[i].addr : i \in DOMAIN resp.descs}]

\* what a device may answer to the status read of a call about drive_addr and
\* slot_addr: failure, or descriptors for (none, one or both of) the two
StatusResponses(drive_addr, slot_addr, srcs) ==
    {[ok |-> FALSE, descs |-> << >>]} \cup
    {[ok |-> TRUE, descs |-> dd \o sd] :
        dd \in {<< >>} \cup {<<[addr |-> drive_addr, full |-> f, svalid |-> v, src |-> s]>> :
                                f \in BOOLEAN, v \in BOOLEAN, s \in srcs},
        sd \in {<< >>} \cup {<<[addr |-> slot_addr, full |-> f, svalid |-> FALSE, src |-> 0]>> :
                                f \in BOOLEAN}}

\* source addresses a drive descriptor may carry: the discovered slots, and
\* one address that is no discovered slot (0)
SourceAddrs(m) == {m.slots[i] : i \in DOMAIN m.slots} \cup {0}

----------------------------------------------------------------------------
(* Calls *)

ApiCall(op, changer, slot, drive) ==
    [iface |-> "api", op |-> op, changer |-> changer, slot |-> slot, drive |-> drive,
     have_transport |-> FALSE, transport |-> 0, source |-> 0, dest |-> 0,
     dry_run |-> FALSE, confirm |-> "off", force |-> FALSE, skip_tur |-> FALSE]

NoCall == ApiCall("none", NULL, 0, 0)

\* the call returns: its arguments, what it discovered and read, what it sent
Finish(c, m, s, l, r) ==
    /\ pc' = "done"
    /\ call' = c
    /\ map' = m
    /\ st' = s
    /\ log' = l
    /\ ret' = r
    /\ UNCHANGED dev
    /\ UNCHANGED sessVars
    /\ UNCHANGED decVars

SlotArgs == -1..(MaxSlots + 1)
DriveArgs == 0..(MaxDrives + 1)
Changers == {NULL, Handle}

\* map.transports.count > 0 ? map.transports.addrs[0] : 0
ApiTransport(m) == IF Len(m.transports) > 0 THEN m.transports[1] ELSE 0

\* variant: ApiOutOfRange without the check of the drive index
ApiOutOfRange_DriveUnchecked(m, slot, drive) == slot > Len(m.slots)
\* (size_t)slot > map.slots.count || (size_t)drive > map.drives.count
ApiOutOfRange(m, slot, drive) == slot > Len(m.slots) \/ drive > Len(m.drives)

\* variant: ApiBadArgs accepting index 0
ApiBadArgs_ZeroAccepted(changer, slot, drive) == changer = NULL \/ slot < 0 \/ drive < 0
\* !changer || slot < 1 || drive < 1
ApiBadArgs(changer, slot, drive) == changer = NULL \/ slot < 1 \/ drive < 1

\* What the environment does to the destructive part of a call: whether the
\* host-OS eject works, and which MOVE MEDIUM of the call fails (0: none).
Outcomes == [ejected : BOOLEAN, failAt : 0..2]

\* cmd_move_medium, the k-th of the call, under outcome o
Move(o, k, transport, source, dest) == MoveCmd(transport, source, dest, o.failAt # k)

\* rc == 0 ? MCHANGER_OK : MCHANGER_ERR_SCSI
ApiRc(c) == IF c.ok THEN MCHANGER_OK ELSE MCHANGER_ERR_SCSI

\* variant: UnloadMoves giving up when the host eject fails
UnloadMoves_StopOnEject(transport, slot_addr, drive_addr, o) ==
    LET unload == Move(o, 1, transport, drive_addr, slot_addr)
    IN IF ~o.ejected THEN [log |-> <<HostEject(FALSE)>>, ret |-> MCHANGER_ERR_SCSI]
       ELSE [log |-> <<HostEject(TRUE), unload>>, ret |-> ApiRc(unload)]
\* mchanger_unload_drive, the eject and the move: [log, ret] under outcome o
UnloadMoves(transport, slot_addr, drive_addr, o) ==
    LET unload == Move(o, 1, transport, drive_addr, slot_addr)
    IN [log |-> <<HostEject(o.ejected), unload>>, ret |-> ApiRc(unload)]

\* mchanger_unload_drive
ApiUnloadDrive ==
    /\ pc = "idle"
    /\ \E fm \in {FetchElementMap(dev)} :
       \E changer \in Changers, slot \in SlotArgs, drive \in DriveArgs :
        LET c == ApiCall("unload", changer, slot, drive)
        IN IF ApiBadArgs(changer, slot, drive)
           THEN Finish(c, EmptyMap, NoRead, << >>, MCHANGER_ERR_INVALID)
           ELSE IF fm.rc # 0
           THEN Finish(c, EmptyMap, NoRead, fm.cmds, MCHANGER_ERR_SCSI)
           ELSE IF ApiOutOfRange(fm.map, slot, drive)
           THEN Finish(c, fm.map, NoRead, fm.cmds, MCHANGER_ERR_INVALID)
           ELSE \E o \in Outcomes :
                LET mv == UnloadMoves(ApiTransport(fm.map), ElemAt(fm.map.slots, slot),
                                      ElemAt(fm.map.drives, drive), o)
                IN Finish(c, fm.map, NoRead, fm.cmds \o mv.log, mv.ret)

\* the occupancy a call read
Read(rd) == [read |-> TRUE, drive |-> rd.drive, slot |-> rd.slot, seen |-> rd.seen]

\* mchanger_load_slot_verbose: "Already loaded?"
LoadAlreadyLoaded(slot_st, drive_st, slot_addr) ==
    ~slot_st.full /\ drive_st.full /\ drive_st.valid_src /\ drive_st.src_addr = slot_addr

\* variant: LoadSlotEmpty looking only at whether the drive is empty
LoadSlotEmpty_DriveEmptyOnly(slot_st, drive_st, slot_addr) ==
    ~slot_st.full /\ ~drive_st.full
\* mchanger_load_slot_verbose: "Slot empty and disc not in drive?"
LoadSlotEmpty(slot_st, drive_st, slot_addr) ==
    ~slot_st.full /\ ~(drive_st.full /\ drive_st.valid_src /\ drive_st.src_addr = slot_addr)

\* mchanger_load_slot_verbose: where the disc found in the drive is unloaded to
LoadUnloadAddr(drive_st, slot_addr) ==
    IF drive_st.valid_src THEN drive_st.src_addr ELSE slot_addr

\* mchanger_load_slot_verbose: "If drive has a different disc, unload it first"
LoadMustUnload(drive_st) == drive_st.full

\* variant: LoadMoves going on to the load after a failed unload
LoadMoves_NoAbort(transport, slot_addr, drive_addr, drive_st, o) ==
    IF LoadMustUnload(drive_st)
    THEN LET unload == Move(o, 1, transport, drive_addr, LoadUnloadAddr(drive_st, slot_addr))
             load == Move(o, 2, transport, slot_addr, drive_addr)
         IN [log |-> <<HostEject(o.ejected), unload, load>>, ret |-> ApiRc(load)]
    ELSE LET load == Move(o, 1, transport, slot_addr, drive_addr)
         IN [log |-> <<load>>, ret |-> ApiRc(load)]
\* mchanger_load_slot_verbose, the moves: the unload (when the drive is full)
\* and then the load; [log, ret] under outcome o
LoadMoves(transport, slot_addr, drive_addr, drive_st, o) ==
    IF LoadMustUnload(drive_st)
    THEN LET unload == Move(o, 1, transport, drive_addr, LoadUnloadAddr(drive_st, slot_addr))
             load == Move(o, 2, transport, slot_addr, drive_addr)
         IN IF ~unload.ok
            THEN [log |-> <<HostEject(o.ejected), unload>>, ret |-> MCHANGER_ERR_SCSI]
            ELSE [log |-> <<HostEject(o.ejected), unload, load>>, ret |-> ApiRc(load)]
    ELSE LET load == Move(o, 1, transport, slot_addr, drive_addr)
         IN [log |-> <<load>>, ret |-> ApiRc(load)]

\* mchanger_load_slot and mchanger_load_slot_verbose
ApiLoadSlot ==
    /\ pc = "idle"
    /\ \E fm \in {FetchElementMap(dev)} :
       \E changer \in Changers, slot \in SlotArgs, drive \in DriveArgs :
        LET c == ApiCall("load", changer, slot, drive)
        IN IF ApiBadArgs(changer, slot, drive)
           THEN Finish(c, EmptyMap, NoRead, << >>, MCHANGER_ERR_INVALID)
           ELSE IF fm.rc # 0
           THEN Finish(c, EmptyMap, NoRead, fm.cmds, MCHANGER_ERR_SCSI)
           ELSE IF ApiOutOfRange(fm.map, slot, drive)
           THEN Finish(c, fm.map, NoRead, fm.cmds, MCHANGER_ERR_INVALID)
           ELSE LET transport == ApiTransport(fm.map)
                    slot_addr == ElemAt(fm.map.slots, slot)
                    drive_addr == ElemAt(fm.map.drives, drive)
                IN \E resp \in StatusResponses(drive_addr, slot_addr, SourceAddrs(fm.map)) :
                   LET rd == ReadElementStatusInfo(resp, drive_addr, slot_addr)
                       sent == fm.cmds \o rd.cmds
                   IN IF rd.rc # 0
                      THEN Finish(c, fm.map, NoRead, sent, MCHANGER_ERR_SCSI)
                      ELSE IF LoadAlreadyLoaded(rd.slot, rd.drive, slot_addr)
                      THEN Finish(c, fm.map, Read(rd), sent, MCHANGER_OK)
                      ELSE IF LoadSlotEmpty(rd.slot, rd.drive, slot_addr)
                      THEN Finish(c, fm.map, Read(rd), sent, MCHANGER_ERR_EMPTY)
                      ELSE \E o \in Outcomes :
                           LET mv == LoadMoves(transport, slot_addr, drive_addr, rd.drive, o)
                           IN Finish(c, fm.map, Read(rd), sent \o mv.log, mv.ret)

\* variant: ApiEjectOutOfRange without the check for an I/E element
ApiEjectOutOfRange_NoPortCheck(m, slot, drive) ==
    slot > Len(m.slots) \/ drive > Len(m.drives)
\* (size_t)slot > slots.count || (size_t)drive > drives.count || map.ie.count == 0
ApiEjectOutOfRange(m, slot, drive) ==
    slot > Len(m.slots) \/ drive > Len(m.drives) \/ Len(m.ie) = 0

\* variant: EjectMustUnload requiring a valid source address
EjectMustUnload_ValidOnly(slot_st, drive_st) ==
    ~slot_st.full /\ drive_st.full /\ drive_st.valid_src
\* mchanger_eject: "If disc is in drive, unload to slot first"
EjectMustUnload(slot_st, drive_st) == ~slot_st.full /\ drive_st.full

\* variant: EjectMoves going on to the I/E move after a failed unload
EjectMoves_NoAbort(transport, slot_addr, drive_addr, ie_addr, slot_st, drive_st, o) ==
    IF EjectMustUnload(slot_st, drive_st)
    THEN LET unload == Move(o, 1, transport, drive_addr, slot_addr)
             toIE == Move(o, 2, transport, slot_addr, ie_addr)
         IN [log |-> <<HostEject(o.ejected), unload, toIE>>, ret |-> ApiRc(toIE)]
    ELSE LET toIE == Move(o, 1, transport, slot_addr, ie_addr)
         IN [log |-> <<toIE>>, ret |-> ApiRc(toIE)]
\* mchanger_eject, the moves: [log, ret] under outcome o
EjectMoves(transport, slot_addr, drive_addr, ie_addr, slot_st, drive_st, o) ==
    IF EjectMustUnload(slot_st, drive_st)
    THEN LET unload == Move(o, 1, transport, drive_addr, slot_addr)
             toIE == Move(o, 2, transport, slot_addr, ie_addr)
         IN IF ~unload.ok
            THEN [log |-> <<HostEject(o.ejected), unload>>, ret |-> MCHANGER_ERR_SCSI]
            ELSE [log |-> <<HostEject(o.ejected), unload, toIE>>, ret |-> ApiRc(toIE)]
    ELSE LET toIE == Move(o, 1, transport, slot_addr, ie_addr)
         IN [log |-> <<toIE>>, ret |-> ApiRc(toIE)]

\* mchanger_eject
ApiEject ==
    /\ pc = "idle"
    /\ \E fm \in {FetchElementMap(dev)} :
       \E changer \in Changers, slot \in SlotArgs, drive \in DriveArgs :
        LET c == ApiCall("eject", changer, slot, drive)
        IN IF ApiBadArgs(changer, slot, drive)
           THEN Finish(c, EmptyMap, NoRead, << >>, MCHANGER_ERR_INVALID)
           ELSE IF fm.rc # 0
           THEN Finish(c, EmptyMap, NoRead, fm.cmds, MCHANGER_ERR_SCSI)
           ELSE IF ApiEjectOutOfRange(fm.map, slot, drive)
           THEN Finish(c, fm.map, NoRead, fm.cmds, MCHANGER_ERR_INVALID)
           ELSE LET transport == ApiTransport(fm.map)
                    slot_addr == ElemAt(fm.map.slots, slot)
                    drive_addr == ElemAt(fm.map.drives, drive)
                    ie_addr == ElemAt(fm.map.ie, 1)
                IN \E resp \in StatusResponses(drive_addr, slot_addr, SourceAddrs(fm.map)) :
                   LET rd == ReadElementStatusInfo(resp, drive_addr, slot_addr)
                       sent == fm.cmds \o rd.cmds
                   IN IF rd.rc # 0
                      THEN Finish(c, fm.map, NoRead, sent, MCHANGER_ERR_SCSI)
                      ELSE \E o \in Outcomes :
                           LET mv == EjectMoves(transport, slot_addr, drive_addr, ie_addr,
                                                rd.slot, rd.drive, o)
                           IN Finish(c, fm.map, Read(rd), sent \o mv.log, mv.ret)

\* element addresses a caller may hand to a raw move
RawAddrs == {FirstStorage, 32}

\* mchanger_move_medium
ApiMoveMedium ==
    /\ pc = "idle"
    /\ \E changer \in Changers, transport \in {0, 16}, source \in RawAddrs, dest \in RawAddrs :
        LET c == [ApiCall("move", changer, 0, 0) EXCEPT
                     !.transport = transport, !.source = source, !.dest = dest]
        IN IF changer = NULL
           THEN Finish(c, EmptyMap, NoRead, << >>, MCHANGER_ERR_INVALID)
           ELSE \E moved \in BOOLEAN :
                LET mv == MoveCmd(transport, source, dest, moved)
                IN Finish(c, EmptyMap, NoRead, <<mv>>, ApiRc(mv))

\* mchanger_get_element_map (out_map is given)
ApiGetElementMap ==
    /\ pc = "idle"
    /\ \E fm \in {FetchElementMap(dev)} :
       \E changer \in Changers :
        LET c == ApiCall("get_element_map", changer, 0, 0)
        IN IF changer = NULL
           THEN Finish(c, EmptyMap, NoRead, << >>, MCHANGER_ERR_INVALID)
           ELSE IF fm.rc # 0
           THEN Finish(c, EmptyMap, NoRead, fm.cmds, MCHANGER_ERR_SCSI)
           ELSE Finish(c, fm.map, NoRead, fm.cmds, MCHANGER_OK)

\* mchanger_get_slot_status (out_status is given)
ApiGetSlotStatus ==
    /\ pc = "idle"
    /\ \E fm \in {FetchElementMap(dev)} :
       \E changer \in Changers, slot \in SlotArgs :
        LET c == ApiCall("get_slot_status", changer, slot, 0)
        IN IF changer = NULL \/ slot < 1
           THEN Finish(c, EmptyMap, NoRead, << >>, MCHANGER_ERR_INVALID)
           ELSE IF fm.rc # 0
           THEN Finish(c, EmptyMap, NoRead, fm.cmds, MCHANGER_ERR_SCSI)
           ELSE IF slot > Len(fm.map.slots)
           THEN Finish(c, fm.map, NoRead, fm.cmds, MCHANGER_ERR_INVALID)
           ELSE LET slot_addr == ElemAt(fm.map.slots, slot)
                    drive_addr == IF Len(fm.map.drives) > 0 THEN fm.map.drives[1] ELSE 0
                IN \E resp \in StatusResponses(drive_addr, slot_addr, SourceAddrs(fm.map)) :
                   LET rd == ReadElementStatusInfo(resp, drive_addr, slot_addr)
                       sent == fm.cmds \o rd.cmds
                   IN IF rd.rc # 0
                      THEN Finish(c, fm.map, NoRead, sent, MCHANGER_ERR_SCSI)
                      ELSE Finish(c, fm.map,
                                  [read |-> TRUE, drive |-> NoStatus, slot |-> rd.slot,
                                   seen |-> rd.seen],
                                  sent, MCHANGER_OK)

\* mchanger_get_drive_status (out_status is given)
ApiGetDriveStatus ==
    /\ pc = "idle"
    /\ \E fm \in {FetchElementMap(dev)} :
       \E changer \in Changers, drive \in DriveArgs \cup {-1} :
        LET c == ApiCall("get_drive_status", changer, 0, drive)
        IN IF changer = NULL \/ drive < 1
           THEN Finish(c, EmptyMap, NoRead, << >>, MCHANGER_ERR_INVALID)
           ELSE IF fm.rc # 0
           THEN Finish(c, EmptyMap, NoRead, fm.cmds, MCHANGER_ERR_SCSI)
           ELSE IF drive > Len(fm.map.drives)
           THEN Finish(c, fm.map, NoRead, fm.cmds, MCHANGER_ERR_INVALID)
           ELSE LET drive_addr == ElemAt(fm.map.drives, drive)
                IN \E resp \in StatusResponses(drive_addr, 0, SourceAddrs(fm.map)) :
                   LET rd == ReadElementStatusInfo(resp, drive_addr, 0)
                       sent == fm.cmds \o rd.cmds
                   IN IF rd.rc # 0
                      THEN Finish(c, fm.map, NoRead, sent, MCHANGER_ERR_SCSI)
                      ELSE Finish(c, fm.map,
                                  [read |-> TRUE, drive |-> rd.drive, slot |-> NoStatus,
                                   seen |-> rd.seen],
                                  sent, MCHANGER_OK)

\* mchanger_inquiry
ApiInquiry ==
    /\ pc = "idle"
    /\ \E changer \in Changers :
        LET c == ApiCall("inquiry", changer, 0, 0)
        IN IF changer = NULL
           THEN Finish(c, EmptyMap, NoRead, << >>, MCHANGER_ERR_INVALID)
           ELSE \E ok \in BOOLEAN :
                Finish(c, EmptyMap, NoRead, <<InquiryCmd(ok)>>,
                       IF ok THEN MCHANGER_OK ELSE MCHANGER_ERR_SCSI)

\* mchanger_test_unit_ready
ApiTestUnitReady ==
    /\ pc = "idle"
    /\ \E changer \in Changers :
        LET c == ApiCall("test_unit_ready", changer, 0, 0)
        IN IF changer = NULL
           THEN Finish(c, EmptyMap, NoRead, << >>, MCHANGER_ERR_INVALID)
           ELSE \E ok \in BOOLEAN :
                Finish(c, EmptyMap, NoRead, <<TurCmd(ok)>>,
                       IF ok THEN MCHANGER_OK ELSE MCHANGER_ERR_SCSI)

\* mchanger_close with a NULL handle: returns at once (closing an open
\* handle belongs to the session, which this part of the model keeps open)
ApiCloseNull ==
    /\ pc = "idle"
    /\ Finish(ApiCall("close", NULL, 0, 0), EmptyMap, NoRead, << >>, 0)

----------------------------------------------------------------------------
(* The command-line tool: main *)

\* --force, --no-tur and the answer to TEST UNIT READY (drawn only where the
\* command is sent; --force matters only where it fails)
TurOptions ==
    {[skip_tur |-> TRUE, force |-> FALSE, turOk |-> TRUE],
     [skip_tur |-> FALSE, force |-> FALSE, turOk |-> TRUE],
     [skip_tur |-> FALSE, force |-> TRUE, turOk |-> FALSE],
     [skip_tur |-> FALSE, force |-> FALSE, turOk |-> FALSE]}

\* main, the TEST UNIT READY gate: [stop, cmds]
TurGate(t) ==
    IF t.skip_tur THEN [stop |-> FALSE, cmds |-> << >>]
    ELSE [stop |-> ~t.turOk /\ ~t.force, cmds |-> <<TurCmd(t.turOk)>>]

\* --transport: absent, or an explicit address
TransportOptions == {[have |-> FALSE, addr |-> 0], [have |-> TRUE, addr |-> 7]}

\* --dry-run, --confirm and the user's answer, with the outcomes of the
\* commands that are then sent (none are drawn where none is sent)
RunPlans ==
    {[dry_run |-> TRUE, confirm |-> cf, o |-> [ejected |-> TRUE, failAt |-> 0]] :
        cf \in {"off", "yes", "no"}}
    \cup {[dry_run |-> FALSE, confirm |-> "no", o |-> [ejected |-> TRUE, failAt |-> 0]]}
    \cup {[dry_run |-> FALSE, confirm |-> cf, o |-> o] : cf \in {"off", "yes"}, o \in Outcomes}

\* --slot: 0 stands for a missing or unparsable index (parse_index rejects 0)
CliSlotArgs == 0..(MaxSlots + 1)
\* --drive: defaults to 1, and an unparsable index leaves the default
CliDriveArgs == 1..(MaxDrives + 1)

CliCall(op, t, slot, drive, tr, plan) ==
    [iface |-> "cli", op |-> op, changer |-> Handle, slot |-> slot, drive |-> drive,
     have_transport |-> tr.have, transport |-> tr.addr, source |-> 0, dest |-> 0,
     dry_run |-> plan.dry_run, confirm |-> plan.confirm,
     force |-> t.force, skip_tur |-> t.skip_tur]

NoPlan == [dry_run |-> FALSE, confirm |-> "off", o |-> [ejected |-> TRUE, failAt |-> 0]]

\* rc of cmd_move_medium, as main returns it
CliRc(c) == IF c.ok THEN 0 ELSE 1

\* variant: --dry-run is not looked at
CliGuarded_NoDryRun(plan, moves) ==
    IF plan.confirm = "no" THEN [log |-> << >>, ret |-> 1]
    ELSE moves

\* main: if (dry_run) print; else { if (confirm && !confirm_move()) abort; moves }
CliGuarded(plan, moves) ==
    IF plan.dry_run THEN [log |-> << >>, ret |-> 0]
    ELSE IF plan.confirm = "no" THEN [log |-> << >>, ret |-> 1]
    ELSE moves

\* main: slot_index == 0 || slot_index > slots.count || drive_index == 0 || ...
CliOutOfRange(m, slot, drive) ==
    slot = 0 \/ slot > Len(m.slots) \/ drive = 0 \/ drive > Len(m.drives)

\* main: if (!have_transport) { if (map.transports.count == 0) fail; ... }
CliNoTransport(m, tr) == ~tr.have /\ Len(m.transports) = 0

\* main: transport = have_transport ? the override : map.transports.addrs[0]
CliTransport(m, tr) == IF tr.have THEN tr.addr ELSE m.transports[1]

\* main (load): the disc we want is already in the drive
CliLoadAlreadyLoaded(slot_st, drive_st, slot_addr) ==
    ~slot_st.full /\ drive_st.full /\ drive_st.valid_src /\ drive_st.src_addr = slot_addr

\* main (load): "Slot %u is empty."
CliLoadSlotEmpty(slot_st, drive_st, slot_addr) ==
    ~slot_st.full /\ ~(drive_st.full /\ drive_st.valid_src /\ drive_st.src_addr = slot_addr)

\* main (load): the slot the drive's disc is unloaded to, 0 when it cannot be
\* determined (no valid source, or a source that is no discovered slot)
CliLoadUnloadAddr(m, drive_st) ==
    IF drive_st.valid_src /\ (\E i \in DOMAIN m.slots : m.slots[i] = drive_st.src_addr)
    THEN drive_st.src_addr ELSE 0

\* main (load), the moves: [log, ret] under outcome o
CliLoadMoves(transport, slot_addr, drive_addr, unload_addr, drive_st, o) ==
    IF drive_st.full
    THEN LET unload == Move(o, 1, transport, drive_addr, unload_addr)
             load == Move(o, 2, transport, slot_addr, drive_addr)
         IN IF ~unload.ok
            THEN [log |-> <<HostEject(o.ejected), unload>>, ret |-> 1]
            ELSE [log |-> <<HostEject(o.ejected), unload, load>>, ret |-> CliRc(load)]
    ELSE LET load == Move(o, 1, transport, slot_addr, drive_addr)
         IN [log |-> <<load>>, ret |-> CliRc(load)]

\* main, the commands load and load-slot
CliLoad ==
    /\ pc = "idle"
    /\ \E fm \in {FetchElementMap(dev)} :
       \E t \in TurOptions, slot \in CliSlotArgs, drive \in CliDriveArgs,
          tr \in TransportOptions :
        LET gate == TurGate(t)
            c == CliCall("load", t, slot, drive, tr, NoPlan)
            sent1 == gate.cmds \o fm.cmds
        IN IF gate.stop THEN Finish(c, EmptyMap, NoRead, gate.cmds, 1)
           ELSE IF slot = 0 THEN Finish(c, EmptyMap, NoRead, gate.cmds, 1)
           ELSE IF fm.rc # 0 THEN Finish(c, EmptyMap, NoRead, sent1, fm.rc)
           ELSE IF CliOutOfRange(fm.map, slot, drive)
           THEN Finish(c, fm.map, NoRead, sent1, 1)
           ELSE IF CliNoTransport(fm.map, tr) THEN Finish(c, fm.map, NoRead, sent1, 1)
           ELSE LET transport == CliTransport(fm.map, tr)
                    slot_addr == ElemAt(fm.map.slots, slot)
                    drive_addr == ElemAt(fm.map.drives, drive)
                IN \E resp \in StatusResponses(drive_addr, slot_addr, SourceAddrs(fm.map)) :
                   LET rd == ReadElementStatusInfo(resp, drive_addr, slot_addr)
                       sent == sent1 \o rd.cmds
                       unload_addr == CliLoadUnloadAddr(fm.map, rd.drive)
                   IN IF rd.rc # 0 THEN Finish(c, fm.map, NoRead, sent, rd.rc)
                      ELSE IF CliLoadAlreadyLoaded(rd.slot, rd.drive, slot_addr)
                      THEN Finish(c, fm.map, Read(rd), sent, 0)
                      ELSE IF CliLoadSlotEmpty(rd.slot, rd.drive, slot_addr)
                      THEN Finish(c, fm.map, Read(rd), sent, 1)
                      ELSE IF rd.drive.full /\ unload_addr = 0
                      THEN Finish(c, fm.map, Read(rd), sent, 1)
                      ELSE \E plan \in RunPlans :
                           LET mv == CliGuarded(plan,
                                        CliLoadMoves(transport, slot_addr, drive_addr,
                                                     unload_addr, rd.drive, plan.o))
                           IN Finish(CliCall("load", t, slot, drive, tr, plan),
                                     fm.map, Read(rd), sent \o mv.log, mv.ret)

\* main (unload), the eject and the move: [log, ret] under outcome o
CliUnloadMoves(transport, slot_addr, drive_addr, o) ==
    LET unload == Move(o, 1, transport, drive_addr, slot_addr)
    IN [log |-> <<HostEject(o.ejected), unload>>, ret |-> CliRc(unload)]

\* main, the commands unload and unload-drive
CliUnload ==
    /\ pc = "idle"
    /\ \E fm \in {FetchElementMap(dev)} :
       \E t \in TurOptions, slot \in CliSlotArgs, drive \in CliDriveArgs,
          tr \in TransportOptions :
        LET gate == TurGate(t)
            c == CliCall("unload", t, slot, drive, tr, NoPlan)
            sent == gate.cmds \o fm.cmds
        IN IF gate.stop THEN Finish(c, EmptyMap, NoRead, gate.cmds, 1)
           ELSE IF slot = 0 THEN Finish(c, EmptyMap, NoRead, gate.cmds, 1)
           ELSE IF fm.rc # 0 THEN Finish(c, EmptyMap, NoRead, sent, fm.rc)
           ELSE IF CliOutOfRange(fm.map, slot, drive)
           THEN Finish(c, fm.map, NoRead, sent, 1)
           ELSE IF CliNoTransport(fm.map, tr) THEN Finish(c, fm.map, NoRead, sent, 1)
           ELSE \E plan \in RunPlans :
                LET mv == CliGuarded(plan,
                             CliUnloadMoves(CliTransport(fm.map, tr), ElemAt(fm.map.slots, slot),
                                            ElemAt(fm.map.drives, drive), plan.o))
                IN Finish(CliCall("unload", t, slot, drive, tr, plan),
                          fm.map, NoRead, sent \o mv.log, mv.ret)

\* main (eject): disc_in_drive
CliDiscInDrive(slot_st, drive_st, slot_addr) ==
    /\ ~slot_st.full
    /\ drive_st.full
    /\ \/ drive_st.valid_src /\ drive_st.src_addr = slot_addr
       \/ ~drive_st.valid_src

\* main (eject): "Slot %zu is empty and disc is not in drive."
CliEjectEmpty(slot_st, drive_st, slot_addr) ==
    ~slot_st.full /\ ~CliDiscInDrive(slot_st, drive_st, slot_addr)

\* main (eject), the moves: [log, ret] under outcome o
CliEjectMoves(transport, slot_addr, drive_addr, ie_addr, disc_in_drive, o) ==
    IF disc_in_drive
    THEN LET unload == Move(o, 1, transport, drive_addr, slot_addr)
             toIE == Move(o, 2, transport, slot_addr, ie_addr)
         IN IF ~unload.ok
            THEN [log |-> <<HostEject(o.ejected), unload>>, ret |-> 1]
            ELSE [log |-> <<HostEject(o.ejected), unload, toIE>>, ret |-> CliRc(toIE)]
    ELSE LET toIE == Move(o, 1, transport, slot_addr, ie_addr)
         IN [log |-> <<toIE>>, ret |-> CliRc(toIE)]

\* main, the command eject
CliEject ==
    /\ pc = "idle"
    /\ \E fm \in {FetchElementMap(dev)} :
       \E t \in TurOptions, slot \in CliSlotArgs, drive \in CliDriveArgs,
          tr \in TransportOptions :
        LET gate == TurGate(t)
            c == CliCall("eject", t, slot, drive, tr, NoPlan)
            sent1 == gate.cmds \o fm.cmds
        IN IF gate.stop THEN Finish(c, EmptyMap, NoRead, gate.cmds, 1)
           ELSE IF slot = 0 THEN Finish(c, EmptyMap, NoRead, gate.cmds, 1)
           ELSE IF fm.rc # 0 THEN Finish(c, EmptyMap, NoRead, sent1, fm.rc)
           ELSE IF slot > Len(fm.map.slots) THEN Finish(c, fm.map, NoRead, sent1, 1)
           ELSE IF drive > Len(fm.map.drives) THEN Finish(c, fm.map, NoRead, sent1, 1)
           ELSE IF Len(fm.map.ie) = 0 THEN Finish(c, fm.map, NoRead, sent1, 1)
           ELSE IF CliNoTransport(fm.map, tr) THEN Finish(c, fm.map, NoRead, sent1, 1)
           ELSE LET transport == CliTransport(fm.map, tr)
                    slot_addr == ElemAt(fm.map.slots, slot)
                    drive_addr == ElemAt(fm.map.drives, drive)
                    ie_addr == ElemAt(fm.map.ie, 1)
                IN \E resp \in StatusResponses(drive_addr, slot_addr, SourceAddrs(fm.map)) :
                   LET rd == ReadElementStatusInfo(resp, drive_addr, slot_addr)
                       sent == sent1 \o rd.cmds
                       disc_in_drive == CliDiscInDrive(rd.slot, rd.drive, slot_addr)
                   IN IF rd.rc # 0 THEN Finish(c, fm.map, NoRead, sent, rd.rc)
                      ELSE IF CliEjectEmpty(rd.slot, rd.drive, slot_addr)
                      THEN Finish(c, fm.map, Read(rd), sent, 1)
                      ELSE \E plan \in RunPlans :
                           LET mv == CliGuarded(plan,
                                        CliEjectMoves(transport, slot_addr, drive_addr,
                                                      ie_addr, disc_in_drive, plan.o))
                           IN Finish(CliCall("eject", t, slot, drive, tr, plan),
                                     fm.map, Read(rd), sent \o mv.log, mv.ret)

\* main (insert, retrieve), the one move: [log, ret] under outcome o
CliOneMove(transport, source, dest, o) ==
    LET mv == Move(o, 1, transport, source, dest)
    IN [log |-> <<mv>>, ret |-> CliRc(mv)]

\* main (insert, retrieve): the checks between discovery and the move
CliPortMissing(m, slot) == IF slot > Len(m.slots) THEN TRUE ELSE Len(m.ie) = 0

\* main, the command insert
CliInsert ==
    /\ pc = "idle"
    /\ \E fm \in {FetchElementMap(dev)} :
       \E t \in TurOptions, slot \in CliSlotArgs, tr \in TransportOptions :
        LET gate == TurGate(t)
            c == CliCall("insert", t, slot, 0, tr, NoPlan)
            sent == gate.cmds \o fm.cmds
        IN IF gate.stop THEN Finish(c, EmptyMap, NoRead, gate.cmds, 1)
           ELSE IF slot = 0 THEN Finish(c, EmptyMap, NoRead, gate.cmds, 1)
           ELSE IF fm.rc # 0 THEN Finish(c, EmptyMap, NoRead, sent, fm.rc)
           ELSE IF CliPortMissing(fm.map, slot) THEN Finish(c, fm.map, NoRead, sent, 1)
           ELSE IF CliNoTransport(fm.map, tr) THEN Finish(c, fm.map, NoRead, sent, 1)
           ELSE \E plan \in RunPlans :
                LET mv == CliGuarded(plan,
                             CliOneMove(CliTransport(fm.map, tr), ElemAt(fm.map.ie, 1),
                                        ElemAt(fm.map.slots, slot), plan.o))
                IN Finish(CliCall("insert", t, slot, 0, tr, plan),
                          fm.map, NoRead, sent \o mv.log, mv.ret)

\* main, the command retrieve
CliRetrieve ==
    /\ pc = "idle"
    /\ \E fm \in {FetchElementMap(dev)} :
       \E t \in TurOptions, slot \in CliSlotArgs, tr \in TransportOptions :
        LET gate == TurGate(t)
            c == CliCall("retrieve", t, slot, 0, tr, NoPlan)
            sent == gate.cmds \o fm.cmds
        IN IF gate.stop THEN Finish(c, EmptyMap, NoRead, gate.cmds, 1)
           ELSE IF slot = 0 THEN Finish(c, EmptyMap, NoRead, gate.cmds, 1)
           ELSE IF fm.rc # 0 THEN Finish(c, EmptyMap, NoRead, sent, fm.rc)
           ELSE IF CliPortMissing(fm.map, slot) THEN Finish(c, fm.map, NoRead, sent, 1)
           ELSE IF CliNoTransport(fm.map, tr) THEN Finish(c, fm.map, NoRead, sent, 1)
           ELSE \E plan \in RunPlans :
                LET mv == CliGuarded(plan,
                             CliOneMove(CliTransport(fm.map, tr), ElemAt(fm.map.slots, slot),
                                        ElemAt(fm.map.ie, 1), plan.o))
                IN Finish(CliCall("retrieve", t, slot, 0, tr, plan),
                          fm.map, NoRead, sent \o mv.log, mv.ret)

\* main, the command move; complete stands for --transport, --source and
\* --dest all being given and parsable
CliMove ==
    /\ pc = "idle"
    /\ \E t \in TurOptions, complete \in BOOLEAN, source \in RawAddrs, dest \in RawAddrs :
        LET gate == TurGate(t)
            tr == [have |-> complete, addr |-> IF complete THEN 16 ELSE 0]
            mk(plan) == [CliCall("move", t, 0, 0, tr, plan) EXCEPT
                            !.source = source, !.dest = dest]
        IN IF gate.stop THEN Finish(mk(NoPlan), EmptyMap, NoRead, gate.cmds, 1)
           ELSE IF ~complete THEN Finish(mk(NoPlan), EmptyMap, NoRead, gate.cmds, 1)
           ELSE \E plan \in RunPlans :
                LET mv == CliGuarded(plan, CliOneMove(tr.addr, source, dest, plan.o))
                IN Finish(mk(plan), EmptyMap, NoRead, gate.cmds \o mv.log, mv.ret)

----------------------------------------------------------------------------
(* Sessions: open_changer, mchanger_open_ex, close_changer, mchanger_close *)

\* ChangerHandle handle = {0}; mem: where the handle lives ("none": nowhere,
\* "stack": main's local, "heap": the calloc'ed MChangerHandle, "freed")
NoHandle ==
    [backend |-> "scsitask", service |-> FALSE, scsi_device |-> FALSE,
     has_exclusive |-> FALSE, sbp2_lun |-> FALSE, sbp2_login |-> FALSE, mem |-> "none"]

NoResult == [op |-> "none", rc |-> 0]

\* no status page read, no MChangerElementStatus filled in
NoPage == [desc_len |-> 0, descs |-> << >>, asked |-> 0]
NoOut == [op |-> "none", rc |-> 0]

\* How a submitted command can end: GOOD status, a status other than GOOD
\* (CHECK CONDITION, BUSY, ...), an error reported by the transport, or no
\* completion within the command's timeout.
ExecOutcomes == {"good", "non_good_status", "transport_error", "timeout"}

\* execute_cdb_scsitask, after ExecuteTaskSync:
\* (kr == kIOReturnSuccess && status == kSCSITaskStatus_GOOD) ? 0 : 1
ExecuteCdbScsitask(outcome) == IF outcome = "good" THEN 0 ELSE 1

\* execute_cdb_sbp2, after ringDoorbell: 1 when runloop_wait gives up or the
\* notification is not kFWSBP2NormalCommandStatus, else 0; a status block that
\* reports a status other than GOOD arrives as kFWSBP2NormalCommandStatus
ExecuteCdbSbp2(outcome) ==
    IF outcome = "timeout" THEN 1
    ELSE IF outcome = "transport_error" THEN 1
    ELSE 0

\* execute_cdb
ExecuteCdb(hd, outcome) ==
    IF hd.backend = "scsitask" THEN ExecuteCdbScsitask(outcome) ELSE ExecuteCdbSbp2(outcome)

\* What opening finds: no (matching) changer, one behind the direct backend,
\* or one behind the serial-bus backend; whether exclusivity is granted
\* (ObtainExclusiveAccess, or the login submitted with kFWSBP2ExclusiveLogin);
\* and how a TEST UNIT READY sent right after opening ends.
OpenEnvs == [found : {"none", "scsitask", "sbp2"}, exclusive : BOOLEAN, tur : ExecOutcomes]

\* open_changer_scsitask, once the device interface is there: [handle, os]
OpenChangerScsitask(env) ==
    [handle |-> [NoHandle EXCEPT !.backend = "scsitask", !.service = TRUE,
                                 !.scsi_device = TRUE, !.has_exclusive = env.exclusive],
     os |-> <<"ObtainExclusiveAccess">>]

\* open_sbp2_lun_from_service, once the LUN is open: [handle, os]
OpenSbp2Lun(env) ==
    IF env.exclusive
    THEN [handle |-> [NoHandle EXCEPT !.backend = "sbp2", !.service = TRUE,
                                      !.sbp2_lun = TRUE, !.sbp2_login = TRUE],
          os |-> <<"submitLogin">>]
    ELSE [handle |-> [NoHandle EXCEPT !.backend = "sbp2"],
          os |-> <<"submitLogin", "ReleaseLogin", "closeLUN", "ReleaseLUN", "IOObjectRelease">>]

\* open_changer: [handle, os]
OpenChanger(env) ==
    IF env.found = "none" THEN [handle |-> NoHandle, os |-> << >>]
    ELSE IF env.found = "scsitask" THEN OpenChangerScsitask(env)
    ELSE OpenSbp2Lun(env)

\* close_changer: [handle, os]
CloseChanger(hd) ==
    LET direct == hd.backend = "scsitask" /\ hd.scsi_device
        serial == hd.backend = "sbp2" /\ hd.sbp2_login /\ hd.sbp2_lun
        e1 == IF direct
              THEN (IF hd.has_exclusive THEN <<"ReleaseExclusiveAccess">> ELSE << >>)
                   \o <<"ReleaseDevice">>
              ELSE << >>
        e2 == IF serial
              THEN <<"submitLogout", "ReleaseLogin", "closeLUN", "ReleaseLUN">>
              ELSE << >>
        e3 == IF hd.service THEN <<"IOObjectRelease">> ELSE << >>
    IN [handle |-> [hd EXCEPT !.scsi_device = IF direct THEN FALSE ELSE @,
                              !.sbp2_login = IF serial THEN FALSE ELSE @,
                              !.sbp2_lun = IF serial THEN FALSE ELSE @,
                              !.service = FALSE],
        os |-> e1 \o e2 \o e3]

\* the session step ends: the new handle, the calls made, the position, the result
SessionStep(hd, events, position, result) ==
    /\ handle' = hd
    /\ os' = os \o events
    /\ spc' = position
    /\ sres' = result
    /\ UNCHANGED inflight
    /\ UNCHANGED callVars
    /\ UNCHANGED decVars

\* cmd_test_unit_ready on the just-opened handle: what execute_cdb returns
TestUnitReady(hd, env) == ExecuteCdb(hd, env.tur)

\* variant: a failed TEST UNIT READY does not stop the open
OpenEx_NoGate(env, force, skip_tur) ==
    LET opened == OpenChanger(env)
        hd == [opened.handle EXCEPT !.mem = "heap"]
    IN IF ~hd.service /\ ~hd.sbp2_lun
       THEN [handle |-> [hd EXCEPT !.mem = "freed"], os |-> opened.os \o <<"free">>,
             tur |-> "unsent", rc |-> 1]
       ELSE IF ~skip_tur /\ ~force
       THEN [handle |-> hd, os |-> opened.os \o <<"TEST_UNIT_READY">>,
             tur |-> IF TestUnitReady(hd, env) # 0 THEN "failed" ELSE "ok", rc |-> 0]
       ELSE [handle |-> hd, os |-> opened.os, tur |-> "unsent", rc |-> 0]

\* mchanger_open_ex: [handle, os, tur, rc], rc = 1 standing for the NULL return
OpenEx(env, force, skip_tur) ==
    LET opened == OpenChanger(env)
        hd == [opened.handle EXCEPT !.mem = "heap"]
    IN IF ~hd.service /\ ~hd.sbp2_lun
       THEN [handle |-> [hd EXCEPT !.mem = "freed"], os |-> opened.os \o <<"free">>,
             tur |-> "unsent", rc |-> 1]
       ELSE IF ~skip_tur /\ ~force
       THEN IF TestUnitReady(hd, env) # 0
            THEN LET closed == CloseChanger(hd)
                 IN [handle |-> [closed.handle EXCEPT !.mem = "freed"],
                     os |-> opened.os \o <<"TEST_UNIT_READY">> \o closed.os \o <<"free">>,
                     tur |-> "failed", rc |-> 1]
            ELSE [handle |-> hd, os |-> opened.os \o <<"TEST_UNIT_READY">>,
                  tur |-> "ok", rc |-> 0]
       ELSE [handle |-> hd, os |-> opened.os, tur |-> "unsent", rc |-> 0]

\* a caller of the library opens a session
ApiOpen ==
    /\ spc = "init"
    /\ \E env \in OpenEnvs, force \in BOOLEAN, skip_tur \in BOOLEAN :
        LET o == OpenEx(env, force, skip_tur)
        IN SessionStep(o.handle, o.os, IF o.rc = 0 THEN "open" ELSE "failed",
                       [op |-> "open", iface |-> "api", force |-> force,
                        skip_tur |-> skip_tur, env |-> env, tur |-> o.tur, rc |-> o.rc])

\* main, from open_changer to the TEST UNIT READY gate: [handle, os, tur, rc]
MainOpen(env, force, skip_tur) ==
    LET opened == OpenChanger(env)
        hd == [opened.handle EXCEPT !.mem = "stack"]
    IN IF \/ hd.backend = "scsitask" /\ ~hd.scsi_device
          \/ hd.backend = "sbp2" /\ ~hd.sbp2_login
       THEN [handle |-> hd, os |-> opened.os, tur |-> "unsent", rc |-> 1]
       ELSE LET turOk == TestUnitReady(hd, env) = 0
                gate == TurGate([skip_tur |-> skip_tur, force |-> force, turOk |-> turOk])
                sent == IF gate.cmds = << >> THEN << >> ELSE <<"TEST_UNIT_READY">>
                tur == IF gate.cmds = << >> THEN "unsent"
                       ELSE IF turOk THEN "ok" ELSE "failed"
            IN IF gate.stop
               THEN LET closed == CloseChanger(hd)
                    IN [handle |-> closed.handle, os |-> opened.os \o sent \o closed.os,
                        tur |-> tur, rc |-> 1]
               ELSE [handle |-> hd, os |-> opened.os \o sent, tur |-> tur, rc |-> 0]

\* the command-line tool starts
CliOpen ==
    /\ spc = "init"
    /\ \E env \in OpenEnvs, force \in BOOLEAN, skip_tur \in BOOLEAN :
        LET o == MainOpen(env, force, skip_tur)
        IN SessionStep(o.handle, o.os, IF o.rc = 0 THEN "open" ELSE "failed",
                       [op |-> "open", iface |-> "cli", force |-> force,
                        skip_tur |-> skip_tur, env |-> env, tur |-> o.tur, rc |-> o.rc])

\* mchanger_close (heap handle) and main's "out: close_changer" (stack handle)
Close ==
    /\ spc = "open"
    /\ LET closed == CloseChanger(handle)
           freed == handle.mem = "heap"
       IN SessionStep([closed.handle EXCEPT !.mem = IF freed THEN "freed" ELSE @],
                      closed.os \o (IF freed THEN <<"free">> ELSE << >>),
                      "closed", [op |-> "close", rc |-> 0])

\* What a read of the freed MChangerHandle can yield: the fields as
\* close_changer left them, or anything else the allocator has put there.
FreedReads ==
    {handle,
     [handle EXCEPT !.backend = "scsitask", !.scsi_device = TRUE, !.has_exclusive = TRUE],
     [handle EXCEPT !.backend = "sbp2", !.sbp2_login = TRUE, !.sbp2_lun = TRUE]}

\* the same session closed a second time: close_changer on main's handle, or
\* mchanger_close on the pointer it has already freed
CloseAgain ==
    /\ spc = "closed"
    /\ IF handle.mem = "freed"
       THEN \E seen \in FreedReads :
               LET closed == CloseChanger(seen)
               IN SessionStep(closed.handle, closed.os \o <<"free">>,
                              "closed2", [op |-> "close", rc |-> 0])
       ELSE LET closed == CloseChanger(handle)
            IN SessionStep(closed.handle, closed.os, "closed2", [op |-> "close", rc |-> 0])

\* What can go wrong before the command reaches the device: CreateSCSITask or
\* createORB fails; setCommandBuffersAsRanges, submitORB or ringDoorbell fails.
ExecSetups(hd) ==
    IF hd.backend = "scsitask" THEN {"ok", "create_failed"}
    ELSE {"ok", "create_failed", "submit_failed"}

CommandsBegun == Len(SelectSeq(os, LAMBDA e : e = "execute"))

\* variant: a command may be handed over while another is awaited
MaySubmit_WhileWaiting == spc \in {"open", "waiting"}

\* execute_cdb is an ordinary blocking call: its caller runs again only when
\* it has returned
MaySubmit == spc = "open"

\* execute_cdb, up to ExecuteTaskSync taking the task / ringDoorbell
ExecBegin ==
    /\ MaySubmit
    /\ handle.mem \in {"heap", "stack"}
    /\ CommandsBegun < MaxCommands
    /\ \E setup \in ExecSetups(handle) :
        IF setup = "ok"
        THEN /\ spc' = "waiting"
             /\ inflight' = inflight + 1
             /\ os' = os \o <<"execute", "submit">>
             /\ sres' = [op |-> "execute", outcome |-> "pending", rc |-> 0]
        ELSE /\ spc' = spc
             /\ inflight' = inflight
             /\ os' = os \o <<"execute">>
             /\ sres' = [op |-> "execute", outcome |-> setup, rc |-> 1]
    /\ UNCHANGED handle
    /\ UNCHANGED callVars
    /\ UNCHANGED decVars

\* execute_cdb, from ExecuteTaskSync returning / runloop_wait returning
ExecEnd ==
    /\ spc = "waiting"
    /\ \E outcome \in ExecOutcomes :
        /\ sres' = [op |-> "execute", outcome |-> outcome, rc |-> ExecuteCdb(handle, outcome)]
    /\ spc' = "open"
    /\ inflight' = inflight - 1
    /\ UNCHANGED <<handle, os>>
    /\ UNCHANGED callVars
    /\ UNCHANGED decVars

\* the caller is done with the session; the next one starts afresh
SessionReset ==
    /\ spc \in {"closed", "closed2", "failed"}
    /\ handle' = NoHandle
    /\ os' = << >>
    /\ spc' = "init"
    /\ sres' = NoResult
    /\ UNCHANGED inflight
    /\ UNCHANGED callVars
    /\ UNCHANGED decVars

\* a session on its own: no library call or CLI command in progress
SessionInit ==
    /\ dev = CHOOSE d \in Devices : ~d.allOk
    /\ pc = "idle"
    /\ call = NoCall
    /\ map = EmptyMap
    /\ st = NoRead
    /\ log = << >>
    /\ ret = 0
    /\ handle = NoHandle
    /\ os = << >>
    /\ spc = "init"
    /\ sres = NoResult
    /\ inflight = 0
    /\ buf = NoPage
    /\ out = NoOut

SessionNext ==
    \/ ApiOpen
    \/ CliOpen
    \/ ExecBegin
    \/ ExecEnd
    \/ Close
    \/ CloseAgain
    \/ SessionReset

SessionSpec == SessionInit /\ [][SessionNext]_vars

----------------------------------------------------------------------------
(* Element status, byte by byte: read_element_status_info and the status calls *)

MaxDescs == 2

\* byte off of descriptor d, offsets counted from 0 as in the source
Byte(d, off) == IF off + 1 \in DOMAIN d THEN d[off + 1] ELSE 0

\* (hi << 8) | lo
Be16(hi, lo) == hi * 256 + lo

\* (b & mask) != 0 for a one-bit mask
BitSet(b, mask) == (b \div mask) % 2 = 1

\* variant: the source address is read low byte first
DecodeDescriptor_LittleEndian(d, desc_len) ==
    [addr |-> Be16(Byte(d, 0), Byte(d, 1)),
     full |-> BitSet(Byte(d, 2), 1),
     svalid |-> desc_len >= 12 /\ BitSet(Byte(d, 9), 128),
     src |-> IF desc_len >= 12 THEN Be16(Byte(d, 11), Byte(d, 10)) ELSE 0]

\* read_element_status_info, one descriptor: elem_addr, full, svalid, src
DecodeDescriptor(d, desc_len) ==
    [addr |-> Be16(Byte(d, 0), Byte(d, 1)),
     full |-> BitSet(Byte(d, 2), 1),
     svalid |-> desc_len >= 12 /\ BitSet(Byte(d, 9), 128),
     src |-> IF desc_len >= 12 THEN Be16(Byte(d, 10), Byte(d, 11)) ELSE 0]

\* read_element_status_info over one buf: the ElementStatus for addr
ReadElementStatusBytes(pg, addr) ==
    ElementStatusOf([i \in DOMAIN pg.descs |-> DecodeDescriptor(pg.descs[i], pg.desc_len)],
                    addr)

\* mchanger_get_slot_status / mchanger_get_drive_status, the copy to *out_status
PublicStatus(internal) ==
    [address |-> internal.addr, full |-> internal.full, except |-> FALSE,
     valid_source |-> internal.valid_src, source_addr |-> internal.src_addr]

\* A descriptor of len bytes with the given address, flag byte (byte 2),
\* byte 9 and source address bytes; the other bytes are zero.
Descriptor(len, addr_lo, flags, b9, src) ==
    [i \in 1..len |->
        IF i = 2 THEN addr_lo
        ELSE IF i = 3 THEN flags
        ELSE IF i = 10 THEN b9
        ELSE IF i = 11 THEN src[1]
        ELSE IF i = 12 THEN src[2]
        ELSE 0]

DescLens == {8, 12}
FlagBytes == {0, 1, 128, 129}
Byte9s == {0, 128}
SourceBytes == {<<0, 2>>, <<1, 0>>}

Descriptors(len) ==
    {Descriptor(len, a, f, b, src) : a \in 1..2, f \in FlagBytes, b \in Byte9s, src \in SourceBytes}

DescLists(len) ==
    UNION {[1..n -> Descriptors(len)] : n \in 1..MaxDescs}

\* the pages a device may answer with, and the element address asked for
Pages ==
    UNION {{[desc_len |-> len, descs |-> ds, asked |-> a] : ds \in DescLists(len), a \in 1..2} :
           len \in DescLens}

\* mchanger_get_slot_status, from the status read on
SlotStatusDecode ==
    /\ out = NoOut
    /\ \E ok \in BOOLEAN :
        out' = IF ok
               THEN [op |-> "get_slot_status", rc |-> MCHANGER_OK,
                     status |-> PublicStatus(ReadElementStatusBytes(buf, buf.asked))]
               ELSE [op |-> "get_slot_status", rc |-> MCHANGER_ERR_SCSI]
    /\ UNCHANGED buf
    /\ UNCHANGED callVars
    /\ UNCHANGED sessVars

\* mchanger_get_drive_status, from the status read on
DriveStatusDecode ==
    /\ out = NoOut
    /\ \E ok \in BOOLEAN :
        out' = IF ok
               THEN [op |-> "get_drive_status", rc |-> MCHANGER_OK,
                     status |-> PublicStatus(ReadElementStatusBytes(buf, buf.asked))]
               ELSE [op |-> "get_drive_status", rc |-> MCHANGER_ERR_SCSI]
    /\ UNCHANGED buf
    /\ UNCHANGED callVars
    /\ UNCHANGED sessVars

\* the caller takes the status
DecodeReturn ==
    /\ out # NoOut
    /\ out' = NoOut
    /\ UNCHANGED buf
    /\ UNCHANGED callVars
    /\ UNCHANGED sessVars

DecodeInit ==
    /\ dev = CHOOSE d \in Devices : ~d.allOk
    /\ pc = "idle"
    /\ call = NoCall
    /\ map = EmptyMap
    /\ st = NoRead
    /\ log = << >>
    /\ ret = 0
    /\ handle = NoHandle
    /\ os = << >>
    /\ spc = "init"
    /\ sres = NoResult
    /\ inflight = 0
    /\ buf \in Pages
    /\ out = NoOut

DecodeNext ==
    \/ SlotStatusDecode
    \/ DriveStatusDecode
    \/ DecodeReturn

DecodeSpec == DecodeInit /\ [][DecodeNext]_vars

\* the caller takes the result; the next call starts from a clean slate
Return ==
    /\ pc = "done"
    /\ pc' = "idle"
    /\ call' = NoCall
    /\ map' = EmptyMap
    /\ st' = NoRead
    /\ log' = << >>
    /\ ret' = 0
    /\ UNCHANGED dev
    /\ UNCHANGED sessVars
    /\ UNCHANGED decVars

Init ==
    /\ dev \in Devices
    /\ pc = "idle"
    /\ call = NoCall
    /\ map = EmptyMap
    /\ st = NoRead
    /\ log = << >>
    /\ ret = 0
    /\ handle = NoHandle
    /\ os = << >>
    /\ spc = "init"
    /\ sres = NoResult
    /\ inflight = 0
    /\ buf = NoPage
    /\ out = NoOut

Next ==
    \/ ApiGetElementMap
    \/ ApiGetSlotStatus
    \/ ApiGetDriveStatus
    \/ ApiLoadSlot
    \/ ApiUnloadDrive
    \/ ApiEject
    \/ ApiMoveMedium
    \/ ApiInquiry
    \/ ApiTestUnitReady
    \/ ApiCloseNull
    \/ CliLoad
    \/ CliUnload
    \/ CliEject
    \/ CliInsert
    \/ CliRetrieve
    \/ CliMove
    \/ Return

Spec == Init /\ [][Next]_vars

----------------------------------------------------------------------------
(* Discovery on its own, for devices that answer the storage query in part *)

\* the entries of list whose address is in keep, in the list's order
Keep(list, keep) == SelectSeq(list, LAMBDA a : a \in keep)

\* the elements of a sequence
Elems(list) == {list[i] : i \in DOMAIN list}

\* the lists a device may report of a declared range: any part of it
Reports(range) == {Keep(range, keep) : keep \in SUBSET Elems(range)}

\* where the declared storage range may start: low, or so high that it ends
\* at the last 16-bit address
StorageFirsts == {FirstStorage, 65536 - MaxSlots}

\* Devices whose MODE SENSE declares num storage elements from first on and
\* whose READ ELEMENT STATUS answers report any part of that range, at most
\* pageMax per answer, with or without a transport and a drive; the
\* storage-only query fp fails (0: none).
PartialDevices ==
    UNION {
        {[allOk |-> TRUE, reported |-> TRUE,
          T |-> t, S |-> rep, D |-> d, IE |-> << >>,
          msOk |-> ms, first |-> first, num |-> num,
          P |-> rep, pageMax |-> pm, failPage |-> fp] :
            t \in TransportLists, d \in DriveLists, ms \in BOOLEAN,
            pm \in 1..(PageMax + 1), fp \in 0..2,
            rep \in Reports(AddrRange(first, num))} :
        first \in StorageFirsts, num \in 0..MaxSlots}

\* the number of elements per storage query that some devices do not exceed
\* ("max ~40 per query"); cmd_probe_storage asks in steps of this size
PageLimit == 40

\* Devices that declare as many storage elements as one such answer holds, or
\* one more, report the leading n of them and answer at most PageLimit
\* elements per query.
LargeDevices ==
    {[allOk |-> TRUE, reported |-> TRUE,
      T |-> <<16>>, S |-> AddrRange(FirstStorage, n), D |-> <<32>>, IE |-> << >>,
      msOk |-> TRUE, first |-> FirstStorage, num |-> num,
      P |-> AddrRange(FirstStorage, n), pageMax |-> PageLimit, failPage |-> fp] :
        num \in {PageLimit, PageLimit + 1}, n \in {PageLimit - 1, PageLimit, PageLimit + 1},
        fp \in 0..2}

DiscoveryInit ==
    /\ dev \in PartialDevices \cup LargeDevices
    /\ pc = "idle"
    /\ call = NoCall
    /\ map = EmptyMap
    /\ st = NoRead
    /\ log = << >>
    /\ ret = 0
    /\ handle = NoHandle
    /\ os = << >>
    /\ spc = "init"
    /\ sres = NoResult
    /\ inflight = 0
    /\ buf = NoPage
    /\ out = NoOut

DiscoveryNext ==
    \/ ApiGetElementMap
    \/ Return

DiscoverySpec == DiscoveryInit /\ [][DiscoveryNext]_vars

----------------------------------------------------------------------------
(* The all-types query and its allocation: fetch_element_map of mchanger.c
   and of xl1b_changer.c *)

\* uint32_t alloc = 65535 (mchanger.c); uint32_t alloc = 4096 (xl1b_changer.c)
MapAlloc == 65535
Xl1bAlloc == 4096
\* xl1b_changer.c re-issues only for needed < 65535
Xl1bNeededLimit == 65535

\* the byte counts an all-types header may declare (a 24-bit field)
ReportByteCounts ==
    {0, 16, 4080, 4088, 4089, 4096, 4097, 8000, 65519, 65526, 65527, 65528, 65535, 65536, 70000}

\* A device as the all-types query sees it: the byte count its header
\* declares, and whether the first and the second query succeed
ByteDevices == [report_bytes : ReportByteCounts, ok1 : BOOLEAN, ok2 : BOOLEAN]

\* an all-types READ ELEMENT STATUS with its allocation length, and how many
\* bytes of its response went to parse_element_status_map
AllTypesCmd(alloc, ok, parsed) ==
    [cmd |-> "READ_ELEMENT_STATUS", a |-> 0, b |-> 0, c |-> 65535, ok |-> ok,
     alloc |-> alloc, parsed |-> parsed]

\* (report_bytes + 8 <= alloc) ? report_bytes + 8 : alloc
ParseLen(report_bytes, alloc) ==
    IF report_bytes + 8 <= alloc THEN report_bytes + 8 ELSE alloc

\* fetch_element_map of mchanger.c, the all-types query: [rc, cmds]
AllTypesQuery(d) ==
    IF ~d.ok1 THEN [rc |-> 1, cmds |-> <<AllTypesCmd(MapAlloc, FALSE, 0)>>]
    ELSE IF d.report_bytes = 0 THEN [rc |-> 1, cmds |-> <<AllTypesCmd(MapAlloc, TRUE, 0)>>]
    ELSE [rc |-> 0,
          cmds |-> <<AllTypesCmd(MapAlloc, TRUE, ParseLen(d.report_bytes, MapAlloc))>>]

\* fetch_element_map of xl1b_changer.c, up to the parse: [rc, cmds]
AllTypesQueryXl1b(d) ==
    LET needed == d.report_bytes + 8
    IN IF ~d.ok1 THEN [rc |-> 1, cmds |-> <<AllTypesCmd(Xl1bAlloc, FALSE, 0)>>]
       ELSE IF d.report_bytes = 0 THEN [rc |-> 1, cmds |-> <<AllTypesCmd(Xl1bAlloc, TRUE, 0)>>]
       ELSE IF needed > Xl1bAlloc /\ needed < Xl1bNeededLimit
       THEN IF ~d.ok2
            THEN [rc |-> 1, cmds |-> <<AllTypesCmd(Xl1bAlloc, TRUE, 0),
                                       AllTypesCmd(needed, FALSE, 0)>>]
            ELSE [rc |-> 0, cmds |-> <<AllTypesCmd(Xl1bAlloc, TRUE, 0),
                                       AllTypesCmd(needed, TRUE,
                                                   ParseLen(d.report_bytes, needed))>>]
       ELSE [rc |-> 0,
             cmds |-> <<AllTypesCmd(Xl1bAlloc, TRUE, ParseLen(d.report_bytes, Xl1bAlloc))>>]

\* the builder of mchanger.c sends its all-types query
MapQuery ==
    /\ pc = "idle"
    /\ LET q == AllTypesQuery(dev)
       IN Finish(ApiCall("all_types_query", Handle, 0, 0), EmptyMap, NoRead, q.cmds, q.rc)

\* the builder of xl1b_changer.c sends its all-types query
MapQueryXl1b ==
    /\ pc = "idle"
    /\ LET q == AllTypesQueryXl1b(dev)
       IN Finish(ApiCall("all_types_query_xl1b", Handle, 0, 0), EmptyMap, NoRead, q.cmds, q.rc)

AllocInit ==
    /\ dev \in ByteDevices
    /\ pc = "idle"
    /\ call = NoCall
    /\ map = EmptyMap
    /\ st = NoRead
    /\ log = << >>
    /\ ret = 0
    /\ handle = NoHandle
    /\ os = << >>
    /\ spc = "init"
    /\ sres = NoResult
    /\ inflight = 0
    /\ buf = NoPage
    /\ out = NoOut

AllocNext ==
    \/ MapQuery
    \/ MapQueryXl1b
    \/ Return

AllocSpec == AllocInit /\ [][AllocNext]_vars

----------------------------------------------------------------------------
(* Vocabulary of the properties: what a finished call has sent and seen *)

Done(op) == pc = "done" /\ call.op = op
IsApi == call.iface = "api"

\* the MOVE MEDIUM commands of the call, in the order sent
Moves == SelectSeq(log, IsMove)

\* the MOVE MEDIUM commands and host ejects of the call, in the order sent
IsAction(c) == IsMove(c) \/ IsHostEject(c)
Actions == SelectSeq(log, IsAction)

\* an all-types READ ELEMENT STATUS: the discovery's first command, or a
\* status read
IsStatusQuery(c) == c.cmd = "READ_ELEMENT_STATUS" /\ c.a = 0

\* the addresses the call's indices stand for in the map it discovered
SlotAddr == ElemAt(map.slots, call.slot)
DriveAddr == ElemAt(map.drives, call.drive)

\* the call got past discovery with both indices inside the discovered map
InRange ==
    /\ MapCount(map) > 0
    /\ call.slot \in 1..Len(map.slots)
    /\ call.drive \in 1..Len(map.drives)

\* the command-line run was allowed to move media: not --dry-run, and the
\* confirmation (when asked for) was not declined
MayMove == ~call.dry_run /\ call.confirm # "no"

\* how the call reports "Empty" and "InvalidArgument"
EmptyResult == IF IsApi THEN MCHANGER_ERR_EMPTY ELSE 1
InvalidResult == IF IsApi THEN MCHANGER_ERR_INVALID ELSE 1

\* the status read shows the drive holding the medium of the target slot
DriveHoldsTarget ==
    st.read /\ st.drive.full /\ st.drive.valid_src /\ st.drive.src_addr = st.slot.addr

----------------------------------------------------------------------------
(* C1 *)

\* C1: a load whose status read shows the drive full with a valid source
\* address equal to the target slot's address returns success and issues no
\* MOVE MEDIUM.
C1_LoadSameSlotNoMove ==
    Done("load") /\ DriveHoldsTarget => ret = 0 /\ Moves = << >>

\* What the code does keep of C1: where the status read also shows the
\* target slot empty, the load returns success and sends no MOVE MEDIUM and
\* no host eject.
LoadSameSlotEmptyNoMove ==
    Done("load") /\ DriveHoldsTarget /\ ~st.slot.full => ret = 0 /\ Actions = << >>

----------------------------------------------------------------------------
(* C2 *)

\* C2: in a load whose status read shows the drive full, at most two MOVE
\* MEDIUM commands are sent; the first of them unloads the drive, a second one
\* is sent only after the unload succeeded and is the load from the target
\* slot into the drive; a failed unload makes the call fail; and the load of
\* a full slot does send the unload (on the command line: when the drive's
\* source slot is known and the run may move media).
C2_UnloadBeforeLoad ==
    Done("load") /\ st.read /\ st.drive.full =>
        /\ Len(Moves) <= 2
        /\ Len(Moves) >= 1 => Moves[1].b = DriveAddr /\ Moves[1].c # DriveAddr
        /\ Len(Moves) = 2 =>
              /\ Moves[1].ok
              /\ Moves[2].b = SlotAddr
              /\ Moves[2].c = DriveAddr
        /\ (Len(Moves) >= 1 /\ ~Moves[1].ok) => ret # 0
        /\ (st.slot.full /\ MayMove /\ (IsApi \/ CliLoadUnloadAddr(map, st.drive) # 0)) =>
              Len(Moves) >= 1

C2_Witness ==
    /\ Done("load") /\ st.read
    /\ st.drive.full /\ st.drive.valid_src /\ st.drive.src_addr # SlotAddr
    /\ Len(Moves) = 2
    /\ Moves[1].b = DriveAddr /\ Moves[1].ok
    /\ Moves[2].b = SlotAddr /\ Moves[2].c = DriveAddr

----------------------------------------------------------------------------
(* C3 *)

\* a library load, unload or eject with an open handle
RangeChecked ==
    pc = "done" /\ IsApi /\ call.changer = Handle /\ call.op \in {"load", "unload", "eject"}

IndexZero == call.slot = 0 \/ call.drive = 0

\* an index above the count of the successfully discovered map
IndexOverCount ==
    /\ call.slot >= 1 /\ call.drive >= 1
    /\ MapCount(map) > 0
    /\ (call.slot > Len(map.slots) \/ call.drive > Len(map.drives))

\* C3 as stated: load, unload and eject with an index equal to 0 or greater
\* than the discovered count return InvalidArgument without any SCSI command.
C3_RangeNoScsi ==
    RangeChecked /\ (IndexZero \/ IndexOverCount) =>
        ret = MCHANGER_ERR_INVALID /\ \A i \in DOMAIN log : ~IsScsi(log[i])

\* C3, amended: with an index equal to 0 they return InvalidArgument and send
\* nothing; with an index greater than the discovered count they return
\* InvalidArgument having sent the commands of the discovery and nothing else:
\* no status read, no MOVE MEDIUM, no host eject.
C3_RangeNoMove ==
    RangeChecked =>
        /\ IndexZero => ret = MCHANGER_ERR_INVALID /\ log = << >>
        /\ IndexOverCount =>
              /\ ret = MCHANGER_ERR_INVALID
              /\ log = FetchElementMap(dev).cmds
              /\ Actions = << >>
              /\ ~st.read

C3_Witness ==
    /\ RangeChecked /\ IndexOverCount
    /\ call.drive > Len(map.drives) /\ call.slot <= Len(map.slots)
    /\ ret = MCHANGER_ERR_INVALID
    /\ log # << >>

----------------------------------------------------------------------------
(* C4 *)

\* C4: load, unload, eject and move return success only if every all-types
\* READ ELEMENT STATUS and every MOVE MEDIUM they sent succeeded, and send no
\* MOVE MEDIUM after one that failed.
C4_FailClosed ==
    pc = "done" /\ call.op \in {"load", "unload", "eject", "move"} =>
        /\ ret = 0 =>
              \A i \in DOMAIN log : (IsMove(log[i]) \/ IsStatusQuery(log[i])) => log[i].ok
        /\ \A i, j \in DOMAIN log :
              (i < j /\ IsMove(log[i]) /\ ~log[i].ok) => ~IsMove(log[j])

C4_Witness ==
    /\ Done("eject") /\ IsApi /\ st.read
    /\ ~st.slot.full /\ st.drive.full
    /\ Len(Moves) = 1 /\ ~Moves[1].ok
    /\ ret = MCHANGER_ERR_SCSI

----------------------------------------------------------------------------
(* C5 *)

\* C5: an eject whose status read shows the slot empty, and the drive either
\* empty or holding a medium with a valid source address that is not the
\* slot's, fails with the Empty error and sends no MOVE MEDIUM and no host eject.
C5_EjectEmptyFails ==
    (/\ Done("eject") /\ st.read
     /\ ~st.slot.full
     /\ (~st.drive.full \/ (st.drive.valid_src /\ st.drive.src_addr # st.slot.addr)))
    => ret = EmptyResult /\ Actions = << >>

----------------------------------------------------------------------------
(* C6 *)

\* C6: an eject (allowed to move media) whose status read shows the slot
\* empty and the drive full, with a source address that is the slot's or is
\* not valid, sends a host eject, then the MOVE MEDIUM from the drive to the
\* slot, and then, exactly when that move succeeded, the MOVE MEDIUM from the
\* slot to the first I/E element.
C6_EjectFromDrive ==
    (/\ Done("eject") /\ st.read /\ MayMove
     /\ ~st.slot.full /\ st.drive.full
     /\ (~st.drive.valid_src \/ st.drive.src_addr = st.slot.addr))
    => /\ Len(Actions) \in {2, 3}
       /\ IsHostEject(Actions[1])
       /\ IsMove(Actions[2]) /\ Actions[2].b = DriveAddr /\ Actions[2].c = SlotAddr
       /\ Len(Actions) = 3 <=> Actions[2].ok
       /\ Len(Actions) = 3 =>
             IsMove(Actions[3]) /\ Actions[3].b = SlotAddr /\ Actions[3].c = ElemAt(map.ie, 1)

C6_Witness ==
    /\ Done("eject") /\ IsApi /\ st.read
    /\ ~st.slot.full /\ st.drive.full /\ ~st.drive.valid_src
    /\ Len(Actions) = 3
    /\ Actions[2].b = DriveAddr /\ Actions[3].c = ElemAt(map.ie, 1)

----------------------------------------------------------------------------
(* C7 *)

\* C7: a load whose status read shows the target slot empty, and the drive
\* not holding that slot's medium, fails with the Empty error and sends no
\* MOVE MEDIUM and no host eject.
C7_LoadEmptyFails ==
    (/\ Done("load") /\ st.read
     /\ ~st.slot.full
     /\ ~(st.drive.full /\ st.drive.valid_src /\ st.drive.src_addr = st.slot.addr))
    => ret = EmptyResult /\ Actions = << >>

C7_Witness ==
    /\ Done("load") /\ IsApi /\ st.read
    /\ ~st.slot.full /\ st.drive.full /\ st.drive.valid_src
    /\ st.drive.src_addr # st.slot.addr
    /\ ret = MCHANGER_ERR_EMPTY /\ Actions = << >>

----------------------------------------------------------------------------
(* C8 *)

SlotOps == {"get_slot_status", "load", "unload", "eject"}
DriveOps == {"get_drive_status", "load", "unload", "eject"}

\* C8: a library call with a NULL handle, or with a slot or drive index below
\* 1, sends no command and (where it returns a code) returns InvalidArgument.
C8_NullOrBadIndex ==
    (/\ pc = "done" /\ IsApi
     /\ \/ call.changer = NULL
        \/ call.op \in SlotOps /\ call.slot < 1
        \/ call.op \in DriveOps /\ call.drive < 1)
    => log = << >> /\ (call.op # "close" => ret = MCHANGER_ERR_INVALID)

C8_Witness ==
    /\ Done("eject") /\ IsApi
    /\ call.changer = Handle /\ call.slot = 0 /\ call.drive = 1
    /\ ret = MCHANGER_ERR_INVALID /\ log = << >>

----------------------------------------------------------------------------
(* C9 *)

\* the unload reached its moves
UnloadRuns ==
    /\ Done("unload") /\ InRange
    /\ IsApi \/ (MayMove /\ (call.have_transport \/ Len(map.transports) > 0))

\* C9: an unload with indices in range reads no element status; it sends one
\* host eject and then one MOVE MEDIUM from the drive to the given slot,
\* whatever the host eject answered, and its result is that of the move.
C9_UnloadNoStatusCheck ==
    UnloadRuns =>
        /\ ~st.read
        /\ Len(SelectSeq(log, IsStatusQuery)) = 1
        /\ Len(Actions) = 2
        /\ IsHostEject(Actions[1])
        /\ IsMove(Actions[2]) /\ Actions[2].b = DriveAddr /\ Actions[2].c = SlotAddr
        /\ ret = 0 <=> Actions[2].ok

C9_Witness ==
    /\ UnloadRuns /\ IsApi
    /\ Len(Actions) = 2
    /\ IsHostEject(Actions[1]) /\ ~Actions[1].ok
    /\ IsMove(Actions[2]) /\ Actions[2].ok
    /\ ret = MCHANGER_OK

----------------------------------------------------------------------------
(* C10 *)

\* C10: eject, insert and retrieve on a discovered map without an I/E element
\* fail (the library with InvalidArgument) and send no MOVE MEDIUM and no
\* host eject, and read no element status.
C10_PortRequired ==
    (/\ pc = "done" /\ call.op \in {"eject", "insert", "retrieve"}
     /\ MapCount(map) > 0 /\ Len(map.ie) = 0)
    => ret = InvalidResult /\ Actions = << >> /\ ~st.read

C10_Witness ==
    /\ Done("eject") /\ IsApi /\ InRange
    /\ Len(map.ie) = 0
    /\ ret = MCHANGER_ERR_INVALID /\ Actions = << >>

----------------------------------------------------------------------------
(* C11 *)

\* C11: the discovery of the element map returns success exactly when at
\* least one element (of any role) is in the map it built, and on failure
\* the map is empty; mchanger_get_element_map hands the same on to its caller.
C11_MapResult ==
    /\ LET fm == FetchElementMap(dev)
       IN /\ fm.rc = 0 <=> MapCount(fm.map) > 0
          /\ fm.rc # 0 => fm.map = EmptyMap
    /\ (Done("get_element_map") /\ call.changer = Handle) =>
          /\ ret = MCHANGER_OK <=> MapCount(map) > 0
          /\ ret # MCHANGER_OK => ret = MCHANGER_ERR_SCSI /\ map = EmptyMap

\* the device answered the all-types query and MODE SENSE, no element was
\* found, and the discovery failed on the final count
C11_Witness ==
    /\ Done("get_element_map") /\ call.changer = Handle
    /\ dev.allOk /\ dev.reported
    /\ Len(log) = 2
    /\ ret = MCHANGER_ERR_SCSI /\ map = EmptyMap

----------------------------------------------------------------------------
(* Sessions *)

\* how often the session made the OS-level call e
Count(e) == Len(SelectSeq(os, LAMBDA x : x = e))

SessionDone(op) == sres.op = op

\* C12: closing a session releases exclusive access (direct backend, when
\* held) or logs out (serial-bus backend) exactly once, and closing the same
\* session a second time performs no further release, logout or free.
C12_CloseIdempotent ==
    /\ spc \in {"closed", "closed2"} =>
          /\ Count("ReleaseExclusiveAccess") =
                (IF handle.backend = "scsitask" /\ handle.has_exclusive THEN 1 ELSE 0)
          /\ Count("submitLogout") = (IF handle.backend = "sbp2" THEN 1 ELSE 0)
          /\ Count("ReleaseDevice") <= 1
          /\ Count("IOObjectRelease") <= 1
          /\ Count("free") <= 1

\* close_changer alone, on the handle main keeps on its stack, is idempotent:
\* it clears every pointer it releases.
CloseChangerIdempotent ==
    (spc \in {"closed", "closed2"} /\ handle.mem = "stack") =>
        /\ Count("ReleaseExclusiveAccess") =
              (IF handle.backend = "scsitask" /\ handle.has_exclusive THEN 1 ELSE 0)
        /\ Count("submitLogout") = (IF handle.backend = "sbp2" THEN 1 ELSE 0)
        /\ Count("ReleaseDevice") <= 1
        /\ Count("IOObjectRelease") <= 1
        /\ Count("free") = 0

\* an execute call has returned
Executed == SessionDone("execute") /\ sres.outcome # "pending"

\* C13: on both backends execute returns success only if the command
\* completed within its timeout, the transport reported no error and the
\* device returned GOOD status; in every other case it returns failure.
C13_ExecuteFailClosed ==
    Executed => (sres.rc = 0 <=> sres.outcome = "good")

\* the direct backend does fail closed
ExecuteFailClosedDirect ==
    (Executed /\ handle.backend = "scsitask") => (sres.rc = 0 <=> sres.outcome = "good")

\* the serial-bus backend fails closed on a timeout and on a transport error
ExecuteFailClosedSerial ==
    (Executed /\ handle.backend = "sbp2" /\ sres.outcome \notin {"good", "non_good_status"})
        => sres.rc = 1

\* the session's transport is closed: nothing is held any more
TransportClosed ==
    /\ ~handle.scsi_device /\ ~handle.sbp2_login /\ ~handle.sbp2_lun /\ ~handle.service
    /\ Count("ReleaseExclusiveAccess") =
          (IF sres.env.found = "scsitask" /\ sres.env.exclusive THEN 1 ELSE 0)
    /\ Count("submitLogout") = (IF sres.env.found = "sbp2" THEN 1 ELSE 0)

\* C14: mchanger_open_ex with force = false and skip_tur = false returns a
\* handle only if TEST UNIT READY succeeded on the just-opened transport; when
\* it fails, the transport is closed (exclusive access released or logout
\* submitted) before NULL is returned; and the command-line tool issues no
\* further SCSI command after a failed TEST UNIT READY unless --force is given.
C14_ReadyGate ==
    SessionDone("open") =>
        /\ (sres.iface = "api" /\ ~sres.force /\ ~sres.skip_tur /\ sres.rc = 0)
              => sres.tur = "ok"
        /\ (sres.iface = "api" /\ ~sres.force /\ ~sres.skip_tur /\ sres.tur = "failed")
              => /\ sres.rc = 1 /\ spc = "failed"
                 /\ TransportClosed
                 /\ os[Len(os)] = "free" /\ Count("free") = 1
        /\ (sres.iface = "cli" /\ sres.tur = "failed" /\ ~sres.force)
              => /\ sres.rc = 1 /\ spc = "failed"
                 /\ TransportClosed
                 /\ Count("execute") = 0
                 /\ ~ENABLED ExecBegin

C14_Witness ==
    /\ SessionDone("open") /\ sres.iface = "api"
    /\ ~sres.force /\ ~sres.skip_tur
    /\ sres.env.found = "scsitask" /\ sres.env.exclusive
    /\ sres.tur = "failed" /\ sres.rc = 1
    /\ Count("ReleaseExclusiveAccess") = 1

\* C19: opening a session succeeds and yields a usable transport even when
\* exclusivity cannot be acquired, both for exclusive access on the direct
\* backend and for the exclusive login on the serial-bus backend.
C19_ExclusivityOptional ==
    (/\ SessionDone("open")
     /\ sres.env.found # "none" /\ ~sres.env.exclusive
     /\ sres.tur # "failed") =>
        /\ sres.rc = 0 /\ spc = "open"
        /\ handle.scsi_device \/ handle.sbp2_login

\* on the direct backend a refused ObtainExclusiveAccess is only a warning
ExclusiveAccessOptional ==
    (/\ SessionDone("open")
     /\ sres.env.found = "scsitask" /\ ~sres.env.exclusive
     /\ sres.tur # "failed") =>
        /\ sres.rc = 0 /\ spc = "open"
        /\ handle.scsi_device /\ ~handle.has_exclusive

----------------------------------------------------------------------------
(* Dry run *)

MovingCommands == {"load", "unload", "eject", "insert", "retrieve", "move"}

\* C15: with --dry-run, none of the commands load, unload, eject, insert,
\* retrieve and move sends a MOVE MEDIUM or triggers a host eject, whatever
\* occupancy the device reports.
C15_DryRunNoAction ==
    (/\ pc = "done" /\ call.iface = "cli"
     /\ call.op \in MovingCommands
     /\ call.dry_run) => Actions = << >>

C15_Witness ==
    /\ Done("load") /\ call.iface = "cli" /\ call.dry_run
    /\ st.read /\ st.slot.full /\ st.drive.full
    /\ st.drive.valid_src /\ st.drive.src_addr # st.slot.addr
    /\ Actions = << >> /\ ret = 0

----------------------------------------------------------------------------
(* Element status decoding *)

\* a status call has filled in its out_status
Decoded == out.op # "none" /\ out.rc = MCHANGER_OK

\* the positions of the descriptors for the element asked about
Matching == {i \in DOMAIN buf.descs : Be16(Byte(buf.descs[i], 0), Byte(buf.descs[i], 1)) = buf.asked}

\* C16: the status returned for an element has full = bit 0 and exception =
\* bit 7 of byte 2 of the descriptor with that element's address and, when
\* the descriptor length is at least 12, valid_source = bit 7 of byte 9 and
\* source address = bytes 10-11, big-endian.
C16_StatusDecoding ==
    (Decoded /\ Cardinality(Matching) = 1) =>
        \A i \in Matching :
            LET d == buf.descs[i]
            IN /\ out.status.full = BitSet(Byte(d, 2), 1)
               /\ out.status.except = BitSet(Byte(d, 2), 128)
               /\ buf.desc_len >= 12 =>
                     /\ out.status.valid_source = BitSet(Byte(d, 9), 128)
                     /\ out.status.source_addr = Byte(d, 10) * 256 + Byte(d, 11)

\* everything but the exception flag is decoded as stated
StatusDecodingButException ==
    (Decoded /\ Cardinality(Matching) = 1) =>
        \A i \in Matching :
            LET d == buf.descs[i]
            IN /\ out.status.address = buf.asked
               /\ out.status.full = BitSet(Byte(d, 2), 1)
               /\ buf.desc_len >= 12 =>
                     /\ out.status.valid_source = BitSet(Byte(d, 9), 128)
                     /\ out.status.source_addr = Byte(d, 10) * 256 + Byte(d, 11)

----------------------------------------------------------------------------
(* Discovery: pagination and the fill from MODE SENSE *)

\* the map of a finished discovery that rebuilt the storage list
Rebuilt ==
    /\ Done("get_element_map") /\ call.changer = Handle /\ ret = MCHANGER_OK
    /\ dev.allOk /\ dev.reported /\ dev.msOk /\ dev.num > 0

\* the storage list as the pagination loop left it
Discovered == Paginate(dev, dev.first, dev.num, << >>, << >>, 1).slots

NoDuplicates(list) == \A i, j \in DOMAIN list : list[i] = list[j] => i = j

\* each entry is the address after the one before it
NoGaps(list) == \A i \in DOMAIN list : i > 1 => list[i] = list[i - 1] + 1

\* C17: when the list discovered by pagination is shorter than the declared
\* capacity N, exactly N - discovered trailing addresses are appended, and the
\* resulting storage list has no gaps and no duplicate addresses.
C17_QuirkFill ==
    (Rebuilt /\ Len(Discovered) < dev.num) =>
        /\ Len(map.slots) - Len(Discovered) = dev.num - Len(Discovered)
        /\ SubSeq(map.slots, 1, Len(Discovered)) = Discovered
        /\ NoGaps(map.slots)
        /\ NoDuplicates(map.slots)

\* the discovered list is the leading part of the declared range, and the
\* range ends below the last 16-bit address
LeadingPart ==
    /\ Discovered = AddrRange(dev.first, Len(Discovered))
    /\ dev.first + dev.num <= 65535

\* for such a device the fill completes the declared range
QuirkFillOfLeadingPart ==
    (Rebuilt /\ Len(Discovered) < dev.num /\ LeadingPart) =>
        map.slots = AddrRange(dev.first, dev.num)

\* the device's answer to one storage-only query for the whole declared
\* range, were its answers not limited to pageMax elements
Unchunked == StoragePage([dev EXCEPT !.pageMax = dev.num], dev.first, dev.num)

\* the storage-only queries of the call
StorageQueries == SelectSeq(log, LAMBDA c : c.cmd = "READ_ELEMENT_STATUS" /\ c.a = 2)

\* every query of the call was answered
AllAnswered == \A i \in DOMAIN log : log[i].ok

\* C18: for a device that answers the storage-only query in chunks, the
\* addresses collected across the pages of the rebuild are those a single
\* unchunked storage query returns, whenever both are obtainable.
C18_PaginationUnion ==
    (Rebuilt /\ AllAnswered) => Elems(Discovered) = Elems(Unchunked)

C18_Witness ==
    /\ Rebuilt /\ AllAnswered
    /\ dev.pageMax = 1 /\ Len(dev.P) = 2
    /\ Len(StorageQueries) = 2
    /\ Discovered = Unchunked /\ map.slots = dev.P

----------------------------------------------------------------------------
(* Load: where the drive's medium is unloaded to *)

\* a load that got to its moves with the drive holding another medium than
\* the requested one, and that was allowed to move media
LoadOverOther ==
    /\ Done("load") /\ st.read
    /\ st.slot.full /\ st.drive.full /\ ~DriveHoldsTarget
    /\ MayMove

\* the destination the claim gives the unload
UnloadTarget == IF st.drive.valid_src THEN st.drive.src_addr ELSE SlotAddr

\* C21: when load finds the drive occupied by media other than the requested
\* one, the unload MOVE MEDIUM goes to the drive's recorded source address
\* when valid_source is set and to the target slot's address when the source
\* is unknown; in both cases the load MOVE MEDIUM(slot to drive) follows
\* (once the unload succeeded).
C21_UnloadTarget ==
    LoadOverOther =>
        /\ Len(Moves) >= 1
        /\ Moves[1].b = DriveAddr /\ Moves[1].c = UnloadTarget
        /\ Moves[1].ok => /\ Len(Moves) = 2
                          /\ Moves[2].b = SlotAddr /\ Moves[2].c = DriveAddr

\* the library's load does this
LoadUnloadTargetApi ==
    (LoadOverOther /\ IsApi) =>
        /\ Len(Moves) >= 1
        /\ Moves[1].b = DriveAddr /\ Moves[1].c = UnloadTarget
        /\ Moves[1].ok => /\ Len(Moves) = 2
                          /\ Moves[2].b = SlotAddr /\ Moves[2].c = DriveAddr

\* the command-line load does it when the drive's source is a discovered slot
LoadUnloadTargetCli ==
    (LoadOverOther /\ ~IsApi /\ CliLoadUnloadAddr(map, st.drive) # 0) =>
        /\ Len(Moves) >= 1
        /\ Moves[1].b = DriveAddr /\ Moves[1].c = st.drive.src_addr
        /\ Moves[1].ok => /\ Len(Moves) = 2
                          /\ Moves[2].b = SlotAddr /\ Moves[2].c = DriveAddr

----------------------------------------------------------------------------
(* Transport address *)

\* an explicit transport address was given (only the command line has one)
Override == ~IsApi /\ call.have_transport

\* the transport address the claim gives the call's moves
ResolvedTransport == IF Override THEN call.transport ELSE ElemAt(map.transports, 1)

TransportOps == {"load", "unload", "eject", "insert", "retrieve"}

\* C22: every MOVE MEDIUM of load, unload, eject, insert and retrieve carries
\* the first discovered transport element's address unless an override was
\* given; no MOVE MEDIUM carries an address that is neither the override nor
\* a discovered transport element.
C22_TransportResolved ==
    (pc = "done" /\ call.op \in TransportOps) =>
        \A i \in DOMAIN Moves :
            /\ Moves[i].a = ResolvedTransport
            /\ Override \/ Len(map.transports) > 0

\* the command line resolves the transport address as stated
TransportResolvedCli ==
    (pc = "done" /\ call.op \in TransportOps /\ ~IsApi) =>
        \A i \in DOMAIN Moves :
            /\ Moves[i].a = ResolvedTransport
            /\ Override \/ Len(map.transports) > 0

\* the library uses the first discovered transport element when there is one
TransportResolvedApi ==
    (pc = "done" /\ call.op \in TransportOps /\ IsApi /\ Len(map.transports) > 0) =>
        \A i \in DOMAIN Moves : Moves[i].a = map.transports[1]

----------------------------------------------------------------------------
(* Discovery: when the storage list is rebuilt *)

\* a finished discovery whose MODE SENSE declared storage elements
Declared ==
    /\ Done("get_element_map") /\ call.changer = Handle
    /\ dev.allOk /\ dev.reported /\ dev.msOk /\ dev.num > 0

\* C23: the storage list of the all-types query is discarded and rebuilt from
\* storage-only queries exactly when that query returned fewer storage
\* elements than MODE SENSE declares; when it returned at least the declared
\* count, the map's storage list is the all-types list in its reported order.
C23_ConditionalRebuild ==
    Declared =>
        /\ StorageQueries # << >> <=> Len(dev.S) < dev.num
        /\ Len(dev.S) >= dev.num => map.slots = dev.S

\* what the builder does: it rebuilds whenever MODE SENSE answered and
\* declared at least one storage element, and only then
RebuildWhenDeclared ==
    (Done("get_element_map") /\ call.changer = Handle /\ dev.allOk /\ dev.reported) =>
        /\ StorageQueries # << >> <=> (dev.msOk /\ dev.num > 0)
        /\ StorageQueries = << >> => map.slots = dev.S

----------------------------------------------------------------------------
(* Discovery: the pagination protocol *)

\* what storage query i of the call added to the list
Added(i) ==
    IF StorageQueries[i].ok
    THEN Len(StoragePage(dev, StorageQueries[i].b, StorageQueries[i].c))
    ELSE 0

\* the start addresses follow the added counts, each query asks for what
\* remains of the declared count, and a page that adds nothing or all that
\* remained is the last one
PaginationSteps ==
    Declared =>
        /\ StorageQueries # << >>
        /\ StorageQueries[1].b = dev.first /\ StorageQueries[1].c = dev.num
        /\ \A i \in DOMAIN StorageQueries :
              i > 1 => /\ StorageQueries[i].b = U16(StorageQueries[i - 1].b + Added(i - 1))
                       /\ StorageQueries[i].c = StorageQueries[i - 1].c - Added(i - 1)
                       /\ Added(i - 1) > 0
                       /\ Added(i - 1) < StorageQueries[i - 1].c
        /\ LET n == Len(StorageQueries)
           IN Added(n) = 0 \/ Added(n) >= StorageQueries[n].c

\* C24: every storage-only READ ELEMENT STATUS of the map builder requests at
\* most 40 elements; the first starts at the declared first storage address,
\* each following one at the previous start plus the number of elements the
\* previous page added; pagination stops as soon as a page adds zero elements
\* or the remaining count is exhausted.
C24_PaginationProtocol ==
    /\ PaginationSteps
    /\ Declared => \A i \in DOMAIN StorageQueries : StorageQueries[i].c <= PageLimit

----------------------------------------------------------------------------
(* The all-types query: asking again with a larger allocation *)

\* an all-types query of either builder has returned
Queried == pc = "done" /\ call.op \in {"all_types_query", "all_types_query_xl1b"}

\* the first response's header declared more bytes than the allocation used
ShortAllocation == log[1].ok /\ dev.report_bytes > log[1].alloc

\* C25: whenever the all-types header declares a report byte count that
\* exceeds the allocation used, the query is sent again with an allocation of
\* the declared byte count + 8 and that second response is parsed, so that no
\* reported descriptor is lost to truncation.
C25_Reissue ==
    (Queried /\ ShortAllocation) =>
        /\ Len(log) = 2
        /\ log[2].alloc = dev.report_bytes + 8
        /\ log[2].ok => log[2].parsed = dev.report_bytes + 8

\* xl1b_changer.c asks again, as stated, while the needed allocation is below 65535
Xl1bReissue ==
    (/\ Done("all_types_query_xl1b") /\ log[1].ok
     /\ dev.report_bytes + 8 > Xl1bAlloc /\ dev.report_bytes + 8 < Xl1bNeededLimit) =>
        /\ Len(log) = 2
        /\ log[1].parsed = 0
        /\ log[2].alloc = dev.report_bytes + 8
        /\ log[2].ok => log[2].parsed = dev.report_bytes + 8 /\ ret = 0
        /\ ~log[2].ok => ret = 1

\* mchanger.c never asks again: it parses at most its 65535 bytes
MchangerNoReissue ==
    Done("all_types_query") =>
        /\ Len(log) = 1 /\ log[1].alloc = MapAlloc
        /\ log[1].parsed <= MapAlloc

----------------------------------------------------------------------------
(* Discovery: a storage query that fails *)

\* a storage-only query of the finished discovery failed
FailedPage ==
    /\ Declared
    /\ \E i \in DOMAIN StorageQueries : ~StorageQueries[i].ok

\* the addresses the first n storage queries of the call returned
RECURSIVE Collected(_)
Collected(n) ==
    IF n = 0 THEN << >>
    ELSE Collected(n - 1) \o
         (IF StorageQueries[n].ok
          THEN StoragePage(dev, StorageQueries[n].b, StorageQueries[n].c)
          ELSE << >>)

\* C26: when a storage-only page fetch fails, the map builder stops
\* paginating, keeps every storage address collected from earlier pages, and
\* does not turn the failure into a failure of map construction.
C26_FailedPage ==
    FailedPage =>
        /\ ~StorageQueries[Len(StorageQueries)].ok
        /\ ret = MCHANGER_OK
        /\ Take(map.slots, Len(Collected(Len(StorageQueries)))) =
               Collected(Len(StorageQueries))

\* the failed query is the last one of the call, and the only failed one
FailedPageStops ==
    FailedPage =>
        \A i \in DOMAIN StorageQueries :
            ~StorageQueries[i].ok <=> i = Len(StorageQueries)

\* a map that is returned starts with the addresses of the earlier pages
FailedPageKeeps ==
    (FailedPage /\ ret = MCHANGER_OK) =>
        Take(map.slots, Len(Collected(Len(StorageQueries)))) =
            Collected(Len(StorageQueries))

\* some element is in the map after the failure: one of another type, a slot
\* of an earlier page, or a slot filled in from a declared range that ends
\* below the last 16-bit address
SomeElementLeft ==
    \/ Len(dev.T) + Len(dev.D) + Len(dev.IE) > 0
    \/ Collected(Len(StorageQueries)) # << >>
    \/ dev.first + dev.num <= 65535

\* the failure fails the construction exactly when no element is left
FailedPageFatal ==
    FailedPage => (ret = MCHANGER_OK <=> SomeElementLeft)

----------------------------------------------------------------------------
(* The command list-map and its consistency check *)

\* the largest storage capacity the devices of this section declare
MaxDeclared == 5

\* warn_if_slot_mismatch: what it prints, given the result of its own MODE
\* SENSE and the number of discovered slots
WarnIfSlotMismatch(assign, count) ==
    IF assign.rc # 0 THEN "none"
    ELSE IF assign.num_storage > 0 /\ count > 0 /\ assign.num_storage # count
    THEN IF count < assign.num_storage \div 2 THEN "warning" ELSE "note"
    ELSE "none"

\* Devices with a transport and a drive that declare num storage elements and
\* report n of them; MODE SENSE answers the map builder or not.
MismatchDevices ==
    {[allOk |-> TRUE, reported |-> TRUE,
      T |-> <<16>>, S |-> AddrRange(FirstStorage, n), D |-> <<32>>, IE |-> << >>,
      msOk |-> ms, first |-> FirstStorage, num |-> num,
      P |-> AddrRange(FirstStorage, n), pageMax |-> MaxDeclared + 1, failPage |-> 0] :
        num \in 0..MaxDeclared, n \in 0..(MaxDeclared + 1), ms \in BOOLEAN}

\* main, the command list-map: the map is built and printed, then checked
\* against a MODE SENSE of its own (answered or not)
CliListMap ==
    /\ pc = "idle"
    /\ \E fm \in {FetchElementMap(dev)} :
       \E t \in TurOptions, ms2 \in BOOLEAN :
        LET gate == TurGate(t)
            c == CliCall("list-map", t, 0, 1, [have |-> FALSE, addr |-> 0], NoPlan)
            assign == ReadModeSenseElement([dev EXCEPT !.msOk = ms2])
        IN /\ pc' = "done"
           /\ call' = c
           /\ st' = NoRead
           /\ UNCHANGED dev
           /\ UNCHANGED sessVars
           /\ UNCHANGED buf
           /\ IF gate.stop
              THEN map' = EmptyMap /\ log' = gate.cmds /\ ret' = 1 /\ out' = NoOut
              ELSE IF fm.rc # 0
              THEN /\ map' = EmptyMap /\ log' = gate.cmds \o fm.cmds /\ ret' = fm.rc
                   /\ out' = NoOut
              ELSE /\ map' = fm.map
                   /\ log' = gate.cmds \o fm.cmds \o <<ModeSenseCmd(ms2)>>
                   /\ ret' = 0
                   /\ out' = [op |-> "warn_if_slot_mismatch", rc |-> 0,
                              said |-> WarnIfSlotMismatch(assign, Len(fm.map.slots))]

\* the caller takes the result of list-map
ListMapReturn ==
    /\ pc = "done"
    /\ pc' = "idle"
    /\ call' = NoCall
    /\ map' = EmptyMap
    /\ st' = NoRead
    /\ log' = << >>
    /\ ret' = 0
    /\ out' = NoOut
    /\ UNCHANGED dev
    /\ UNCHANGED sessVars
    /\ UNCHANGED buf

ListMapInit ==
    /\ dev \in MismatchDevices \cup PartialDevices
    /\ pc = "idle"
    /\ call = NoCall
    /\ map = EmptyMap
    /\ st = NoRead
    /\ log = << >>
    /\ ret = 0
    /\ handle = NoHandle
    /\ os = << >>
    /\ spc = "init"
    /\ sres = NoResult
    /\ inflight = 0
    /\ buf = NoPage
    /\ out = NoOut

ListMapNext ==
    \/ CliListMap
    \/ ListMapReturn

ListMapSpec == ListMapInit /\ [][ListMapNext]_vars

\* list-map ran its consistency check, whose MODE SENSE was answered, on a
\* map with C > 0 slots of a device declaring D > 0, C different from D
Mismatch ==
    /\ Done("list-map") /\ out.op = "warn_if_slot_mismatch"
    /\ log[Len(log)].ok
    /\ dev.num > 0 /\ Len(map.slots) > 0 /\ Len(map.slots) # dev.num

\* C27: for a declared storage count D > 0 and a discovered count C > 0 with
\* C different from D, the check classifies the mismatch as severe exactly
\* when 2*C < D and as informational otherwise; it never returns an error,
\* never modifies the map and never changes the result of the operation.
C27_ConsistencyCheck ==
    Mismatch =>
        /\ out.said = (IF 2 * Len(map.slots) < dev.num THEN "warning" ELSE "note")
        /\ ret = 0
        /\ map = FetchElementMap(dev).map

\* what the check computes: the discovered count against the declared count
\* halved and rounded down
ConsistencyCheckRoundsDown ==
    Mismatch =>
        out.said = (IF Len(map.slots) < dev.num \div 2 THEN "warning" ELSE "note")

\* the check leaves the map and the result of list-map as discovery made them
ConsistencyCheckAnnotates ==
    (Done("list-map") /\ out.op = "warn_if_slot_mismatch") =>
        /\ ret = 0
        /\ map = FetchElementMap(dev).map
        /\ (~Mismatch => out.said = "none")

----------------------------------------------------------------------------
(* Element status buffers, byte by byte: parse_element_status_map *)

\* ElementMap map = {0}: every caller starts a parse from an empty map
FreshMap_Kept(prev) == prev

FreshMap(prev) == EmptyMap

\* element_list_push to the list of the page's element type
Push(m, type, elem_addr) ==
    IF type = 1 THEN [m EXCEPT !.transports = Append(@, elem_addr)]
    ELSE IF type = 2 THEN [m EXCEPT !.slots = Append(@, elem_addr)]
    ELSE IF type = 3 THEN [m EXCEPT !.ie = Append(@, elem_addr)]
    ELSE IF type = 4 THEN [m EXCEPT !.drives = Append(@, elem_addr)]
    ELSE m

\* variant: every storage descriptor with address 0 is padding
IsFiller_AnyZeroAddress(b, offset, type, desc_len) ==
    type = 2 /\ Be16(Byte(b, offset), Byte(b, offset + 1)) = 0

\* parse_element_status_map: type == 0x02 && elem_addr == 0x0000 && all_zero
IsFiller(b, offset, type, desc_len) ==
    /\ type = 2
    /\ Be16(Byte(b, offset), Byte(b, offset + 1)) = 0
    /\ \A i \in 0..(desc_len - 1) : Byte(b, offset + i) = 0

\* parse_element_status_map, the loop over the descriptors of one page:
\* [map, offset]
RECURSIVE ParseDescriptors(_, _, _, _, _, _)
ParseDescriptors(b, offset, page_end, type, desc_len, m) ==
    IF offset + desc_len > page_end THEN [map |-> m, offset |-> offset]
    ELSE IF desc_len < 2 THEN [map |-> m, offset |-> page_end]
    ELSE IF IsFiller(b, offset, type, desc_len)
    THEN ParseDescriptors(b, offset + desc_len, page_end, type, desc_len, m)
    ELSE ParseDescriptors(b, offset + desc_len, page_end, type, desc_len,
                          Push(m, type, Be16(Byte(b, offset), Byte(b, offset + 1))))

\* parse_element_status_map, the loop over the pages
RECURSIVE ParsePages(_, _, _, _)
ParsePages(b, len, offset, m) ==
    IF offset + 8 > len THEN m
    ELSE LET type == Byte(b, offset) % 16
             desc_len == Be16(Byte(b, offset + 2), Byte(b, offset + 3))
             page_bytes == Byte(b, offset + 5) * 65536 + Be16(Byte(b, offset + 6),
                                                              Byte(b, offset + 7))
             first == offset + 8
             page_end == IF first + page_bytes > len THEN len ELSE first + page_bytes
         IN IF desc_len = 0 \/ page_bytes = 0 THEN m
            ELSE LET r == ParseDescriptors(b, first, page_end, type, desc_len, m)
                 IN ParsePages(b, len, IF r.offset < page_end THEN page_end ELSE r.offset,
                               r.map)

\* parse_element_status_map: [ok, map]
ParseElementStatusMap(b, len, m) ==
    IF len < 8 THEN [ok |-> FALSE, map |-> m]
    ELSE LET parsed == ParsePages(b, len, 8, m)
         IN [ok |-> MapCount(parsed) > 0, map |-> parsed]

\* the buffer size of read_element_status_info, all of which it scans
StatusAlloc == 4096

\* read_element_status_info, the descriptors of one page as it decodes them:
\* [descs, offset]
RECURSIVE StatusDescriptors(_, _, _, _, _)
StatusDescriptors(b, offset, page_end, desc_len, descs) ==
    IF offset + desc_len > page_end THEN [descs |-> descs, offset |-> offset]
    ELSE StatusDescriptors(b, offset + desc_len, page_end, desc_len,
             Append(descs, DecodeDescriptor([i \in 1..desc_len |-> Byte(b, offset + i - 1)],
                                            desc_len)))

\* read_element_status_info, the loop over the pages
RECURSIVE StatusPages(_, _, _, _)
StatusPages(b, len, offset, descs) ==
    IF offset + 8 > len THEN descs
    ELSE LET desc_len == Be16(Byte(b, offset + 2), Byte(b, offset + 3))
             page_bytes == Byte(b, offset + 5) * 65536 + Be16(Byte(b, offset + 6),
                                                              Byte(b, offset + 7))
             first == offset + 8
             page_end == IF first + page_bytes > len THEN len ELSE first + page_bytes
         IN IF desc_len = 0 \/ page_bytes = 0 THEN descs
            ELSE LET r == StatusDescriptors(b, first, page_end, desc_len, descs)
                 IN StatusPages(b, len, IF r.offset < page_end THEN page_end ELSE r.offset,
                                r.descs)

\* read_element_status_info over the bytes of a response: both statuses
ReadElementStatusBuffer(b, drive_addr, slot_addr) ==
    LET descs == StatusPages(b, StatusAlloc, 8, << >>)
    IN [read |-> TRUE, drive |-> ElementStatusOf(descs, drive_addr),
        slot |-> ElementStatusOf(descs, slot_addr)]

\* the bytes of a list of descriptors, one after the other
RECURSIVE Flatten(_)
Flatten(ds) == IF ds = << >> THEN << >> ELSE Head(ds) \o Flatten(Tail(ds))

\* an element status page: its 8-byte header (type code, descriptor length,
\* byte count of the descriptors) and its descriptors
EncodePage(p) ==
    <<p.type, 0, p.desc_len \div 256, p.desc_len % 256,
      0, 0, (p.desc_len * Len(p.descs)) \div 256, (p.desc_len * Len(p.descs)) % 256>>
    \o Flatten(p.descs)

\* an element status response: its 8-byte header (first address, number of
\* elements, byte count of the report) and its pages
EncodeBuffer(pages) ==
    LET body == Flatten([i \in DOMAIN pages |-> EncodePage(pages[i])])
    IN <<0, 0, 0, 0, 0, 0, Len(body) \div 256, Len(body) % 256>> \o body

\* element type bytes: the four types, a type no list is kept for, and a
\* storage type with bits above the type code set
TypeBytes == {1, 2, 3, 4, 5, 130}

\* descriptors at address 0 or 1, empty or full, the other bytes zero (the
\* empty one at address 0 is all zero)
MapDescriptors(len) ==
    {Descriptor(len, a, f, 0, <<0, 0>>) : a \in 0..1, f \in 0..1}

\* the pages of the given types and descriptor lengths with up to maxn
\* descriptors
PagesOf(types, lens, maxn) ==
    UNION {{[type |-> t, desc_len |-> len, descs |-> ds] :
                t \in types, ds \in UNION {[1..n -> MapDescriptors(len)] : n \in 1..maxn}} :
           len \in lens}

\* responses: a page of any type with up to MaxDescs descriptors, alone or
\* followed by a storage or drive page with one short descriptor
PageLists ==
    {<<p>> : p \in PagesOf(TypeBytes, {4, 12}, MaxDescs)}
    \cup {<<p, q>> : p \in PagesOf(TypeBytes, {4, 12}, MaxDescs), q \in PagesOf({2, 4}, {4}, 1)}

\* a response is parsed into a map and, for a drive and a slot address, into
\* their statuses
ParseOnce ==
    /\ pc = "idle"
    /\ \E drive_addr \in 0..1, slot_addr \in 0..1 :
        LET r == ParseElementStatusMap(buf.bytes, Len(buf.bytes), FreshMap(map))
        IN /\ map' = r.map
           /\ st' = ReadElementStatusBuffer(buf.bytes, drive_addr, slot_addr)
           /\ ret' = IF r.ok THEN 0 ELSE 1
    /\ pc' = "done"
    /\ call' = [NoCall EXCEPT !.op = "parse"]
    /\ out' = NoOut
    /\ UNCHANGED <<dev, log, buf>>
    /\ UNCHANGED sessVars

\* the same bytes are parsed a second time
ParseAgain ==
    /\ pc = "done"
    /\ out = NoOut
    /\ LET r == ParseElementStatusMap(buf.bytes, Len(buf.bytes), FreshMap(map))
       IN out' = [op |-> "parse", rc |-> IF r.ok THEN 0 ELSE 1, map |-> r.map,
                  st |-> ReadElementStatusBuffer(buf.bytes, st.drive.addr, st.slot.addr)]
    /\ UNCHANGED <<buf>>
    /\ UNCHANGED callVars
    /\ UNCHANGED sessVars

\* both results are dropped
ParseReturn ==
    /\ pc = "done"
    /\ out # NoOut
    /\ pc' = "idle"
    /\ call' = NoCall
    /\ map' = EmptyMap
    /\ st' = NoRead
    /\ ret' = 0
    /\ out' = NoOut
    /\ UNCHANGED <<dev, log, buf>>
    /\ UNCHANGED sessVars

ParseInit ==
    /\ dev = CHOOSE d \in Devices : ~d.allOk
    /\ pc = "idle"
    /\ call = NoCall
    /\ map = EmptyMap
    /\ st = NoRead
    /\ log = << >>
    /\ ret = 0
    /\ handle = NoHandle
    /\ os = << >>
    /\ spc = "init"
    /\ sres = NoResult
    /\ inflight = 0
    /\ \E pages \in PageLists : buf = [pages |-> pages, bytes |-> EncodeBuffer(pages)]
    /\ out = NoOut

ParseNext ==
    \/ ParseOnce
    \/ ParseAgain
    \/ ParseReturn

ParseSpec == ParseInit /\ [][ParseNext]_vars

\* a response has been parsed twice
ParsedTwice == pc = "done" /\ call.op = "parse" /\ out # NoOut

----------------------------------------------------------------------------
(* The parsed map: role lists and padding *)

\* the descriptor is the padding of a storage page: address 0, all bytes zero
Padding(type, d) == type % 16 = 2 /\ \A i \in DOMAIN d : d[i] = 0

\* the addresses of page p that belong to the list of type code k
Listed(p, k) ==
    IF p.type % 16 = k
    THEN LET kept == SelectSeq(p.descs, LAMBDA d : ~Padding(p.type, d))
         IN [i \in DOMAIN kept |-> Be16(kept[i][1], kept[i][2])]
    ELSE << >>

\* the addresses of the response that belong to the list of type code k, in
\* buffer order
ListedAll(k) == Flatten([i \in DOMAIN buf.pages |-> Listed(buf.pages[i], k)])

\* a response has been parsed into a map
Parsed == pc = "done" /\ call.op = "parse"

\* C29: the map parser appends each descriptor's address to the list of its
\* page's type nibble (1 transport, 2 storage, 3 import/export, 4 drive) in
\* buffer order, except that a storage-type descriptor with address 0 whose
\* bytes are all zero is skipped; descriptors of any other type nibble are
\* put in no list.
C29_RolePartition ==
    Parsed => /\ map.transports = ListedAll(1)
              /\ map.slots = ListedAll(2)
              /\ map.ie = ListedAll(3)
              /\ map.drives = ListedAll(4)

\* a storage page with padding and a full element at address 0 was parsed,
\* and only the element is in the slot list
C29_Witness ==
    /\ Parsed
    /\ Len(buf.pages) = 1
    /\ buf.pages[1].type = 130
    /\ buf.pages[1].descs = <<Descriptor(4, 0, 0, 0, <<0, 0>>), Descriptor(4, 0, 1, 0, <<0, 0>>)>>
    /\ map.slots = <<0>>

\* a page of a type no list is kept for was parsed, and the map is empty
C29_WitnessOtherType ==
    /\ Parsed
    /\ Len(buf.pages) = 1
    /\ buf.pages[1].type = 5
    /\ map = EmptyMap

----------------------------------------------------------------------------
(* MODE SENSE, byte by byte: read_mode_sense_element *)

\* the buffer size of read_mode_sense_element
ModeSenseAlloc == 256

\* ElementAddrAssignment assign = {0}
NoAssignment ==
    [first_transport |-> 0, num_transport |-> 0, first_storage |-> 0, num_storage |-> 0,
     first_ie |-> 0, num_ie |-> 0, first_drive |-> 0, num_drive |-> 0]

\* variant: the storage pair is read before the transport pair
ReadModeSenseElementBytes_StorageFirst(mem, prior) ==
    LET block_desc_len == Be16(Byte(mem, 6), Byte(mem, 7))
        page_offset == 8 + block_desc_len
        p == page_offset + 2
    IN IF page_offset + 2 > ModeSenseAlloc THEN [rc |-> 1, assign |-> prior]
       ELSE IF Byte(mem, page_offset) % 64 # 29 \/ Byte(mem, page_offset + 1) < 16
       THEN [rc |-> 0, assign |-> prior]
       ELSE [rc |-> 0,
             assign |-> [first_storage |-> Be16(Byte(mem, p), Byte(mem, p + 1)),
                         num_storage |-> Be16(Byte(mem, p + 2), Byte(mem, p + 3)),
                         first_transport |-> Be16(Byte(mem, p + 4), Byte(mem, p + 5)),
                         num_transport |-> Be16(Byte(mem, p + 6), Byte(mem, p + 7)),
                         first_ie |-> Be16(Byte(mem, p + 8), Byte(mem, p + 9)),
                         num_ie |-> Be16(Byte(mem, p + 10), Byte(mem, p + 11)),
                         first_drive |-> Be16(Byte(mem, p + 12), Byte(mem, p + 13)),
                         num_drive |-> Be16(Byte(mem, p + 14), Byte(mem, p + 15))]]

\* read_mode_sense_element once the command has returned its data: [rc, assign]
\* for the bytes mem (the buffer and what lies behind it) and the
\* assignment the caller passed
ReadModeSenseElementBytes(mem, prior) ==
    LET block_desc_len == Be16(Byte(mem, 6), Byte(mem, 7))
        page_offset == 8 + block_desc_len
        p == page_offset + 2
    IN IF page_offset + 2 > ModeSenseAlloc THEN [rc |-> 1, assign |-> prior]
       ELSE IF Byte(mem, page_offset) % 64 # 29 \/ Byte(mem, page_offset + 1) < 16
       THEN [rc |-> 0, assign |-> prior]
       ELSE [rc |-> 0,
             assign |-> [first_transport |-> Be16(Byte(mem, p), Byte(mem, p + 1)),
                         num_transport |-> Be16(Byte(mem, p + 2), Byte(mem, p + 3)),
                         first_storage |-> Be16(Byte(mem, p + 4), Byte(mem, p + 5)),
                         num_storage |-> Be16(Byte(mem, p + 6), Byte(mem, p + 7)),
                         first_ie |-> Be16(Byte(mem, p + 8), Byte(mem, p + 9)),
                         num_ie |-> Be16(Byte(mem, p + 10), Byte(mem, p + 11)),
                         first_drive |-> Be16(Byte(mem, p + 12), Byte(mem, p + 13)),
                         num_drive |-> Be16(Byte(mem, p + 14), Byte(mem, p + 15))]]

\* read_mode_sense_element with an assignment to fill: the indices buf[...]
\* it evaluates; the header bytes, the page header at page_offset and, for
\* page 0x1D of length 16 or more, p[0] .. p[15] with p = &buf[page_offset + 2]
ReadModeSenseElementReads(mem) ==
    LET block_desc_len == Be16(Byte(mem, 6), Byte(mem, 7))
        page_offset == 8 + block_desc_len
    IN {0, 1, 6, 7}
       \cup (IF page_offset + 2 > ModeSenseAlloc THEN {}
             ELSE {page_offset, page_offset + 1}
                  \cup (IF Byte(mem, page_offset) % 64 # 29 \/ Byte(mem, page_offset + 1) < 16
                        THEN {}
                        ELSE {page_offset + 2 + i : i \in 0..15}))

\* block descriptor lengths: none (as asked for with DBD), one descriptor,
\* the largest for which the page's 16 parameter bytes end inside the buffer
\* and the next one, the largest for which the page header is inside the
\* buffer (the page's parameters are then read from behind it), and the
\* first that is out of range
BlockDescLens ==
    {0, 8, ModeSenseAlloc - 26, ModeSenseAlloc - 25, ModeSenseAlloc - 10, ModeSenseAlloc - 9}

\* page code bytes: 0x1D, 0x1D with the PS bit, with the SPF bit, and others
PageCodeBytes == {29, 157, 93, 30, 0}

PageLens == {0, 15, 16, 18}

\* the 16 bytes after the page header
Payloads ==
    {[i \in 1..16 |-> 0],
     <<0, 1, 0, 2, 0, 3, 0, 4, 0, 5, 0, 6, 0, 7, 0, 8>>,
     <<1, 0, 0, 1, 0, 16, 0, 200, 0, 0, 0, 0, 2, 0, 0, 1>>}

\* the memory read_mode_sense_element reads: the mode parameter header, the
\* block descriptors, the page header and the 16 bytes after it
ModeSenseMemory(bdl, code, page_len, payload) ==
    <<0, page_len + 7, 0, 0, 0, 0, bdl \div 256, bdl % 256>>
    \o [i \in 1..bdl |-> 0] \o <<code, page_len>> \o payload

\* the assignment the caller passes: zeroed, or one read before
PriorAssignments == {NoAssignment, [NoAssignment EXCEPT !.first_storage = 1, !.num_storage = 9]}

\* read_mode_sense_element, from the returned data on
ModeSenseParse ==
    /\ out = NoOut
    /\ \E prior \in PriorAssignments :
        LET r == ReadModeSenseElementBytes(buf.bytes, prior)
        IN out' = [op |-> "read_mode_sense_element", rc |-> r.rc,
                   assign |-> r.assign, prior |-> prior,
                   reads |-> ReadModeSenseElementReads(buf.bytes)]
    /\ UNCHANGED buf
    /\ UNCHANGED callVars
    /\ UNCHANGED sessVars

\* the caller takes the assignment
ModeSenseReturn ==
    /\ out # NoOut
    /\ out' = NoOut
    /\ UNCHANGED buf
    /\ UNCHANGED callVars
    /\ UNCHANGED sessVars

ModeSenseInit ==
    /\ dev = CHOOSE d \in Devices : ~d.allOk
    /\ pc = "idle"
    /\ call = NoCall
    /\ map = EmptyMap
    /\ st = NoRead
    /\ log = << >>
    /\ ret = 0
    /\ handle = NoHandle
    /\ os = << >>
    /\ spc = "init"
    /\ sres = NoResult
    /\ inflight = 0
    /\ \E bdl \in BlockDescLens, code \in PageCodeBytes, len \in PageLens, pl \in Payloads :
        buf = [offset |-> 8 + bdl, code |-> code, page_len |-> len, payload |-> pl,
               bytes |-> ModeSenseMemory(bdl, code, len, pl)]
    /\ out = NoOut

ModeSenseNext ==
    \/ ModeSenseParse
    \/ ModeSenseReturn

ModeSenseSpec == ModeSenseInit /\ [][ModeSenseNext]_vars

\* the parser has returned, and the page header was inside the buffer
ModeSenseParsed ==
    out.op = "read_mode_sense_element" /\ buf.offset + 2 <= ModeSenseAlloc

\* page code 0x1D (the low six bits of the first byte) and page length >= 16
AssignmentPage == buf.code % 64 = 29 /\ buf.page_len >= 16

\* the big-endian pair at bytes 2k-1, 2k of the payload
Pair(k) == buf.payload[2 * k - 1] * 256 + buf.payload[2 * k]

\* C30: the MODE SENSE parser fills the assignment from the 16 bytes
\* following the page header at offset 8 + block_descriptor_length, as four
\* big-endian (first, count) pairs in the order Transport, Storage,
\* Import/Export, Drive, if and only if the page code is 0x1D and the page
\* length is at least 16; for any other page code or length it returns
\* without an error and leaves the assignment unchanged.
C30_AssignmentParse ==
    ModeSenseParsed =>
        /\ out.rc = 0
        /\ AssignmentPage =>
              out.assign = [first_transport |-> Pair(1), num_transport |-> Pair(2),
                            first_storage |-> Pair(3), num_storage |-> Pair(4),
                            first_ie |-> Pair(5), num_ie |-> Pair(6),
                            first_drive |-> Pair(7), num_drive |-> Pair(8)]
        /\ ~AssignmentPage => out.assign = out.prior

\* a page 0x1D with the PS bit set, after one block descriptor, was parsed
\* over an earlier assignment: 200 storage elements from address 16 on
C30_Witness ==
    /\ ModeSenseParsed
    /\ buf.offset = 16 /\ buf.code = 157 /\ buf.page_len = 16
    /\ out.prior # NoAssignment
    /\ out.assign.first_storage = 16 /\ out.assign.num_storage = 200
    /\ out.assign.first_transport = 256 /\ out.assign.num_drive = 1

\* a page header outside the buffer fails the call and leaves the assignment
ModeSenseOutOfRange ==
    (out.op = "read_mode_sense_element" /\ buf.offset + 2 > ModeSenseAlloc) =>
        out.rc = 1 /\ out.assign = out.prior

----------------------------------------------------------------------------
(* The serial-bus execute, step by step: execute_cdb_sbp2 *)

\* the state of one execute_cdb_sbp2 call: its number, whether it has a data
\* buffer, its ORB and the command buffers attached to it, the waiter the
\* status callback writes to (done, the kind of notification and the command
\* it was sent for), and the result
NoExecute ==
    [op |-> "none", id |-> 0, with_buffer |-> FALSE, orb |-> "none", buffers |-> "none",
     done |-> FALSE, event |-> "none", from |-> 0, outcome |-> "none", rc |-> 0]

\* how far a call gets before it waits: createORB fails,
\* setCommandBuffersAsRanges fails, submitORB fails, ringDoorbell fails, or
\* the doorbell is rung
Sbp2Setups(with_buffer) ==
    {"create_failed", "submit_failed", "doorbell_failed", "ok"}
    \cup (IF with_buffer THEN {"ranges_failed"} ELSE {})

\* the notifications the status callback passes on: kFWSBP2NormalCommandStatus
\* or any other event
Sbp2Events == {"normal", "other"}

\* execute_cdb_sbp2 from its entry to ringDoorbell: the call returns 1 on a
\* failure (after Release of the ORB, where there is one) or starts to wait
Sbp2Begin ==
    /\ spc = "open"
    /\ sres.id < MaxCommands
    /\ \E with_buffer \in BOOLEAN :
       \E setup \in Sbp2Setups(with_buffer) :
        LET c == [NoExecute EXCEPT !.op = "execute", !.id = sres.id + 1,
                                   !.with_buffer = with_buffer, !.outcome = setup]
            attached == IF with_buffer THEN "attached" ELSE "none"
        IN IF setup = "create_failed"
           THEN /\ sres' = [c EXCEPT !.rc = 1]
                /\ os' = os \o <<"createORB">>
                /\ UNCHANGED <<spc, inflight>>
           ELSE IF setup = "ranges_failed"
           THEN /\ sres' = [c EXCEPT !.orb = "released", !.rc = 1]
                /\ os' = os \o <<"createORB", "setStatusNotify",
                                 "setCommandBuffersAsRanges", "Release">>
                /\ UNCHANGED <<spc, inflight>>
           ELSE IF setup = "submit_failed"
           THEN /\ sres' = [c EXCEPT !.orb = "released", !.buffers = attached, !.rc = 1]
                /\ os' = os \o <<"createORB", "setStatusNotify">>
                            \o (IF with_buffer THEN <<"setCommandBuffersAsRanges">> ELSE << >>)
                            \o <<"submitORB", "Release">>
                /\ UNCHANGED <<spc, inflight>>
           ELSE IF setup = "doorbell_failed"
           THEN /\ sres' = [c EXCEPT !.orb = "released", !.buffers = attached, !.rc = 1]
                /\ os' = os \o <<"createORB", "setStatusNotify">>
                            \o (IF with_buffer THEN <<"setCommandBuffersAsRanges">> ELSE << >>)
                            \o <<"submitORB", "ringDoorbell", "Release">>
                /\ UNCHANGED <<spc, inflight>>
           ELSE /\ sres' = [c EXCEPT !.orb = "live", !.buffers = attached,
                                     !.outcome = "pending"]
                /\ os' = os \o <<"createORB", "setStatusNotify">>
                            \o (IF with_buffer THEN <<"setCommandBuffersAsRanges">> ELSE << >>)
                            \o <<"submitORB", "ringDoorbell">>
                /\ spc' = "waiting"
                /\ inflight' = inflight \cup {c.id}
    /\ UNCHANGED handle
    /\ UNCHANGED callVars
    /\ UNCHANGED decVars

\* sbp2_status_callback: the run loop delivers the notification of a command
\* the device still holds. It writes to the waiter registered last, whatever
\* command the notification is for; when that call has returned (the caller
\* of the library runs the loop between calls) the waiter is no longer there.
Sbp2StatusCallback ==
    /\ \E k \in inflight, ev \in Sbp2Events :
        /\ inflight' = inflight \ {k}
        /\ IF spc = "waiting"
           THEN /\ sres' = [sres EXCEPT !.done = TRUE, !.event = ev, !.from = k]
                /\ os' = os \o <<"sbp2_status_callback">>
           ELSE /\ sres' = sres
                /\ os' = os \o <<"sbp2_status_callback_after_return">>
    /\ UNCHANGED <<handle, spc>>
    /\ UNCHANGED callVars
    /\ UNCHANGED decVars

\* execute_cdb_sbp2 from runloop_wait returning to its return
Sbp2End ==
    /\ spc = "waiting"
    /\ IF sres.done
       THEN /\ sres' = [sres EXCEPT !.orb = "released",
                                    !.buffers = IF sres.with_buffer THEN "released" ELSE @,
                                    !.outcome = "notified",
                                    !.rc = IF sres.event = "normal" THEN 0 ELSE 1]
            /\ os' = os \o (IF sres.with_buffer THEN <<"releaseCommandBuffers">> ELSE << >>)
                        \o <<"Release">>
       ELSE /\ sres' = [sres EXCEPT !.orb = "released", !.outcome = "timeout", !.rc = 1]
            /\ os' = os \o <<"runloop_wait_timeout", "Release">>
    /\ spc' = "open"
    /\ UNCHANGED <<handle, inflight>>
    /\ UNCHANGED callVars
    /\ UNCHANGED decVars

\* a session logged in on the serial-bus backend, no command sent yet
Sbp2Init ==
    /\ dev = CHOOSE d \in Devices : ~d.allOk
    /\ pc = "idle"
    /\ call = NoCall
    /\ map = EmptyMap
    /\ st = NoRead
    /\ log = << >>
    /\ ret = 0
    /\ handle = [NoHandle EXCEPT !.backend = "sbp2", !.service = TRUE, !.sbp2_lun = TRUE,
                                 !.sbp2_login = TRUE, !.mem = "heap"]
    /\ os = << >>
    /\ spc = "open"
    /\ sres = NoExecute
    /\ inflight = {}
    /\ buf = NoPage
    /\ out = NoOut

Sbp2Next ==
    \/ Sbp2Begin
    \/ Sbp2StatusCallback
    \/ Sbp2End

Sbp2Spec == Sbp2Init /\ [][Sbp2Next]_vars

\* an execute_cdb_sbp2 call has returned
Sbp2Returned == spc = "open" /\ sres.op = "execute"

\* C31: on every return path of the serial-bus execute taken after command
\* buffers were attached to the ORB (submit failure, doorbell failure,
\* timeout, error notification, success), both the command buffers and the
\* ORB have been released before the call returns.
C31_ResourceRelease ==
    (Sbp2Returned /\ sres.buffers # "none") =>
        sres.buffers = "released" /\ sres.orb = "released"

\* the ORB is released on every return path that created one
OrbReleased ==
    (Sbp2Returned /\ sres.outcome # "create_failed") => sres.orb = "released"

\* attached command buffers are released exactly on the paths taken after a
\* notification (success, error notification)
BuffersReleasedWhenNotified ==
    (Sbp2Returned /\ sres.buffers # "none") =>
        (sres.buffers = "released" <=> sres.outcome = "notified")

----------------------------------------------------------------------------
(* The serial-bus execute: whose completion a call takes *)

\* the calls the session has made so far include e
Happened(e) == \E i \in DOMAIN os : os[i] = e

\* C32: on the serial-bus backend a completion notification that belongs to
\* an earlier command whose wait timed out is never accepted as the
\* completion of a later command, and is never delivered to the waiter of a
\* call that has already returned; execute reports success for a command
\* only on that command's own completion.
C32_NoStaleCompletion ==
    /\ sres.done => sres.from = sres.id
    /\ ~Happened("sbp2_status_callback_after_return")
    /\ (Sbp2Returned /\ sres.outcome = "notified" /\ sres.rc = 0) =>
           (sres.from = sres.id /\ sres.event = "normal")

\* as long as no wait has timed out, a call takes its own command's
\* notification only, and no notification is left for later
OwnCompletionUntilTimeout ==
    ~Happened("runloop_wait_timeout") =>
        /\ sres.done => sres.from = sres.id
        /\ ~Happened("sbp2_status_callback_after_return")
        /\ inflight \subseteq (IF spc = "waiting" THEN {sres.id} ELSE {})

\* success is reported only after a notification of a normal command status
SuccessOnlyWhenNotified ==
    (Sbp2Returned /\ sres.rc = 0) => (sres.done /\ sres.event = "normal")

----------------------------------------------------------------------------
(* Load and eject: the occupancy of a move's destination *)

\* the status read of the call reported the element at addr full
ReportedFull(addr) ==
    /\ st.read
    /\ \/ st.slot.addr = addr /\ st.slot.full
       \/ st.drive.addr = addr /\ st.drive.full

\* a successful MOVE MEDIUM of the call before move i took the medium out of addr
MovedOut(i, addr) == \E j \in 1..(i - 1) : Moves[j].ok /\ Moves[j].b = addr

\* no move of the call goes to an element reported full and not emptied
FreeDestinations ==
    \A i \in DOMAIN Moves : ReportedFull(Moves[i].c) => MovedOut(i, Moves[i].c)

\* C33: load and eject never issue a MOVE MEDIUM whose destination element
\* was reported full by the status read of the same call, unless an earlier
\* successful MOVE MEDIUM of that call has moved the medium out of that
\* element.
C33_DestinationFree ==
    (Done("load") \/ Done("eject")) => FreeDestinations

\* eject keeps to it
EjectDestinationFree == Done("eject") => FreeDestinations

\* load keeps to it except for the unload of the drive to the target slot: a
\* full target slot, and the drive's disc sent there
LoadDestinationFree ==
    (Done("load") /\ ~FreeDestinations) =>
        /\ st.slot.full /\ st.drive.full
        /\ Moves[1].b = DriveAddr /\ Moves[1].c = SlotAddr
        /\ \A i \in DOMAIN Moves : i > 1 => (ReportedFull(Moves[i].c) => MovedOut(i, Moves[i].c))

\* the command-line load sends the drive's disc to a full target slot only
\* when the drive names that slot as its source
LoadDestinationFreeCli ==
    (Done("load") /\ ~IsApi /\ ~FreeDestinations) =>
        st.drive.valid_src /\ st.drive.src_addr = SlotAddr

----------------------------------------------------------------------------
(* Elements the status response does not describe *)

\* the call read the status, and the response had no descriptor for addr
Absent(addr) == st.read /\ addr \notin st.seen

\* C34: when the address of a requested slot or drive does not occur in the
\* all-types status response, the status read still succeeds and reports
\* full = false and valid_source = false; consequently load of such a slot
\* returns Empty without any MOVE MEDIUM unless the drive's valid source
\* equals that address.
C34_AbsentReadsEmpty ==
    /\ Absent(st.slot.addr) => ~st.slot.full /\ ~st.slot.valid_src
    /\ Absent(st.drive.addr) => ~st.drive.full /\ ~st.drive.valid_src
    /\ (Done("get_slot_status") /\ Absent(SlotAddr)) => ret = MCHANGER_OK
    /\ (Done("get_drive_status") /\ Absent(DriveAddr)) => ret = MCHANGER_OK
    /\ (Done("load") /\ Absent(SlotAddr)
        /\ ~(st.drive.valid_src /\ st.drive.src_addr = SlotAddr)) =>
           (ret = EmptyResult /\ Moves = << >>)

\* a load of a slot that the device does not report (its address was filled
\* in from MODE SENSE) and the status response does not describe, with a full
\* drive: Empty
C34_Witness ==
    /\ Done("load") /\ IsApi
    /\ Absent(SlotAddr) /\ ~Absent(DriveAddr)
    /\ \A i \in DOMAIN dev.P : dev.P[i] # SlotAddr
    /\ st.drive.full /\ ~st.drive.valid_src
    /\ ret = MCHANGER_ERR_EMPTY /\ Moves = << >>

----------------------------------------------------------------------------
(* The storage list against the declared capacity *)

\* list-map built its map in a run where MODE SENSE declared N > 0 storage
\* elements in a range that ends at or below the last 16-bit address
DeclaredRun ==
    /\ Done("list-map") /\ out.op = "warn_if_slot_mismatch"
    /\ dev.msOk /\ dev.num > 0 /\ dev.first + dev.num <= 65535

\* C35: after element-map discovery succeeds in a run where MODE SENSE page
\* 0x1D was parsed with declared storage count N > 0 and first address + N <=
\* 65535, the storage list has at least N entries; hence a consistency check
\* that reads the same declared count never classifies the result as severe.
C35_StorageCoversDeclared ==
    DeclaredRun => /\ Len(map.slots) >= dev.num
                   /\ out.said # "warning"

\* a device that reports fewer storage elements than it declares, and whose
\* first storage query fails: the list is filled to the declared count and
\* the answered check says nothing
C35_Witness ==
    /\ DeclaredRun
    /\ dev.num = MaxSlots /\ Len(dev.P) < dev.num /\ dev.failPage = 1
    /\ log[Len(log)].ok
    /\ Len(map.slots) = dev.num
    /\ out.said = "none"

----------------------------------------------------------------------------
(* The pagination loop, one iteration at a time *)

\* the loop's variables before its first iteration: start_addr, remaining,
\* the number of slots in the list, and the queries sent so far (counted up
\* to one more than the declared number)
PagingStart(first_storage, num_storage) ==
    [op |-> "paginate", start_addr |-> first_storage, remaining |-> num_storage,
     count |-> 0, queries |-> 0, more |-> TRUE]

\* what a storage-only query can come to, whatever was asked for: the command
\* fails, the response reports zero bytes, or its parse adds k slots
PageAnswers ==
    {[kind |-> "failed", added |-> 0], [kind |-> "zero_bytes", added |-> 0]}
    \cup {[kind |-> "parsed", added |-> k] : k \in 0..(MaxDeclared + 1)}

\* variant: a page that adds nothing does not end the loop
PageIteration_NoEmptyCheck(s, answer) ==
    LET sent == [s EXCEPT !.queries = IF @ <= MaxDeclared THEN @ + 1 ELSE @]
    IN IF answer.kind # "parsed" THEN [sent EXCEPT !.more = FALSE]
       ELSE LET moved == [sent EXCEPT !.count = @ + answer.added,
                                      !.start_addr = U16(@ + answer.added)]
            IN IF answer.added >= s.remaining THEN [moved EXCEPT !.more = FALSE]
               ELSE [moved EXCEPT !.remaining = @ - answer.added]

\* fetch_element_map, one iteration of while (remaining > 0)
PageIteration(s, answer) ==
    LET sent == [s EXCEPT !.queries = IF @ <= MaxDeclared THEN @ + 1 ELSE @]
    IN IF answer.kind # "parsed" THEN [sent EXCEPT !.more = FALSE]
       ELSE IF answer.added = 0 THEN [sent EXCEPT !.more = FALSE]
       ELSE LET moved == [sent EXCEPT !.count = @ + answer.added,
                                      !.start_addr = U16(@ + answer.added)]
            IN IF answer.added >= s.remaining THEN [moved EXCEPT !.more = FALSE]
               ELSE [moved EXCEPT !.remaining = @ - answer.added]

\* the loop sends a query and takes its answer
PageQuery ==
    /\ spc = "paging"
    /\ sres.remaining > 0
    /\ \E answer \in PageAnswers :
        /\ sres' = PageIteration(sres, answer)
        /\ spc' = IF sres'.more THEN "paging" ELSE "paged"
    /\ UNCHANGED <<handle, os, inflight>>
    /\ UNCHANGED callVars
    /\ UNCHANGED decVars

\* the loop is left; the next discovery starts it again
PagingReturn ==
    /\ spc = "paged"
    /\ spc' = "paging"
    /\ sres' = PagingStart(dev.first, dev.num)
    /\ UNCHANGED <<handle, os, inflight>>
    /\ UNCHANGED callVars
    /\ UNCHANGED decVars

\* MODE SENSE has declared num > 0 storage elements from first on
PaginationInit ==
    /\ \E first \in StorageFirsts, num \in 1..MaxDeclared :
        /\ dev = [(CHOOSE d \in Devices : ~d.allOk) EXCEPT !.first = first, !.num = num]
        /\ sres = PagingStart(first, num)
    /\ pc = "idle"
    /\ call = NoCall
    /\ map = EmptyMap
    /\ st = NoRead
    /\ log = << >>
    /\ ret = 0
    /\ handle = NoHandle
    /\ os = << >>
    /\ spc = "paging"
    /\ inflight = 0
    /\ buf = NoPage
    /\ out = NoOut

PaginationNext ==
    \/ PageQuery
    \/ PagingReturn

\* the loop runs on: a query that can be sent is sent
PaginationSpec == PaginationInit /\ [][PaginationNext]_vars /\ WF_vars(PageQuery)

\* C36: for every device behaviour the storage pagination loop terminates,
\* because every iteration that continues adds at least one element and
\* strictly decreases the remaining count; at most N storage-only queries are
\* issued for a declared count N.
C36_PaginationTerminates ==
    /\ (spc = "paging") ~> (spc = "paged")
    /\ [](sres.queries <= dev.num)
    /\ [][(spc = "paging" /\ spc' = "paging") =>
             (sres'.count >= sres.count + 1 /\ sres'.remaining < sres.remaining)]_vars

\* the loop was left after as many queries as elements were declared, each
\* having added one
C36_Witness ==
    /\ spc = "paged"
    /\ dev.num = MaxDeclared
    /\ sres.queries = dev.num /\ sres.count = dev.num

(***************************************************************************)
(* Opening a changer by identity: find_changer_service, open_changer,      *)
(* open_changer_scsitask with find_scsi_task_device_global, and            *)
(* open_changer_sbp2 with find_sbp2_lun_service.  The I/O registry is the  *)
(* environment: the changer nubs in iteration order, whether the chosen    *)
(* nub has a SCSITask child of its own, the SCSI peripheral nubs of the    *)
(* global lookup and the serial-bus LUN services, each with the vendor and *)
(* product strings it carries.                                             *)
(***************************************************************************)
MaxServices == 2

Sony == [vendor |-> "Sony", product |-> "VAIOChanger1"]

Identities == {Sony, [vendor |-> "PIONEER", product |-> "DVD-RW"]}

ServiceLists(S) == UNION {[1..n -> S] : n \in 0..MaxServices}

Registries ==
    [nubs  : ServiceLists(Identities),
     child : BOOLEAN,
     tasks : ServiceLists([id : Identities, usable : BOOLEAN]),
     luns  : ServiceLists(Identities)]

FirstOf(S) == IF S = {} THEN 0 ELSE CHOOSE i \in S : \A j \in S : i <= j

\* find_changer_service: the first changer nub that is Sony VAIOChanger1;
\* failing that, and only without require_sony, the first changer nub.
\* 0 is IO_OBJECT_NULL.
FindChangerService(nubs, require_sony) ==
    LET exact == {i \in DOMAIN nubs : nubs[i] = Sony}
    IN  IF exact # {} THEN FirstOf(exact)
        ELSE IF ~require_sony THEN FirstOf(DOMAIN nubs)
        ELSE 0

\* find_scsi_task_device_global: the first usable service (category and
\* plug-in type present) with the vendor and product asked for; failing
\* that, the first usable service whatever its vendor and product.
FindScsiTaskDeviceGlobal(tasks, id) ==
    LET exact  == {i \in DOMAIN tasks : tasks[i].id = id /\ tasks[i].usable}
        usable == {i \in DOMAIN tasks : tasks[i].usable}
    IN  IF exact # {} THEN FirstOf(exact) ELSE FirstOf(usable)

\* find_sbp2_lun_service: the first LUN with the vendor and product asked
\* for; failing that, the first LUN whatever its vendor and product.
FindSbp2LunService(luns, id) ==
    LET exact == {i \in DOMAIN luns : luns[i] = id}
    IN  IF exact # {} THEN FirstOf(exact) ELSE FirstOf(DOMAIN luns)

NoOpen ==
    [op |-> "none", force |-> FALSE, opened |-> FALSE, backend |-> "none",
     via |-> "none", changer |-> Sony, device |-> Sony, sent |-> 0]

\* open_changer(require_sony) with the outcome of the plug-in interface
\* (iface_ok) and of the serial-bus open and login (login_ok).
OpenChangerByIdentity(reg, require_sony, iface_ok, login_ok) ==
    LET n == FindChangerService(reg.nubs, require_sony)
        failed == [NoOpen EXCEPT !.op = "open", !.force = ~require_sony]
    IN  IF n = 0 THEN failed
        ELSE
        LET id == reg.nubs[n]
            t  == FindScsiTaskDeviceGlobal(reg.tasks, id)
            l  == FindSbp2LunService(reg.luns, id)
            known == [failed EXCEPT !.changer = id]
        IN  IF require_sony /\ id # Sony THEN failed
            ELSE IF reg.child /\ iface_ok
            THEN [known EXCEPT !.opened = TRUE, !.backend = "scsitask",
                               !.via = "child", !.device = id]
            ELSE IF ~reg.child /\ t # 0 /\ iface_ok
            THEN [known EXCEPT !.opened = TRUE, !.backend = "scsitask",
                               !.via = "global", !.device = reg.tasks[t].id]
            ELSE IF l # 0 /\ login_ok
            THEN [known EXCEPT !.opened = TRUE, !.backend = "sbp2",
                               !.via = "sbp2", !.device = reg.luns[l]]
            ELSE known

\* mchanger_open_ex(device_name, force, skip_tur): open_changer(!force),
\* then TEST UNIT READY unless skipped or forced; a failing TEST UNIT READY
\* closes the session again.
IdentityOpen ==
    /\ spc = "closed"
    /\ \E force \in BOOLEAN, skip_tur \in BOOLEAN, iface_ok \in BOOLEAN,
          login_ok \in BOOLEAN, tur_ok \in BOOLEAN :
        LET o == OpenChangerByIdentity(dev, ~force, iface_ok, login_ok)
            tur == o.opened /\ ~skip_tur /\ ~force
        IN  /\ os' = IF tur THEN Append(os, [cmd |-> "TEST_UNIT_READY", to |-> o.device])
                     ELSE os
            /\ sres' = IF tur /\ ~tur_ok THEN [o EXCEPT !.opened = FALSE, !.sent = 1]
                       ELSE [o EXCEPT !.sent = IF tur THEN 1 ELSE 0]
            /\ spc' = IF o.opened /\ (tur => tur_ok) THEN "opened" ELSE "failed"
    /\ UNCHANGED <<dev, handle, inflight>>
    /\ UNCHANGED callVars
    /\ UNCHANGED decVars

\* Any command of the session goes to the transport the open left in the
\* handle (execute_cdb on handle->scsi_device or handle->sbp2_login).
IdentityCommand ==
    /\ spc = "opened"
    /\ sres.sent < MaxCommands
    /\ \E c \in {"INQUIRY", "MOVE_MEDIUM"} :
        os' = Append(os, [cmd |-> c, to |-> sres.device])
    /\ sres' = [sres EXCEPT !.sent = @ + 1]
    /\ UNCHANGED <<dev, handle, inflight, spc>>
    /\ UNCHANGED callVars
    /\ UNCHANGED decVars

\* mchanger_close.
IdentityClose ==
    /\ spc = "opened"
    /\ spc' = "shut"
    /\ sres' = [sres EXCEPT !.opened = FALSE]
    /\ UNCHANGED <<dev, handle, inflight, os>>
    /\ UNCHANGED callVars
    /\ UNCHANGED decVars

IdentityInit ==
    /\ dev \in Registries
    /\ pc = "idle"
    /\ call = NoCall
    /\ map = EmptyMap
    /\ st = NoRead
    /\ log = << >>
    /\ ret = 0
    /\ handle = NoHandle
    /\ os = << >>
    /\ spc = "closed"
    /\ sres = NoOpen
    /\ inflight = {}
    /\ buf = NoPage
    /\ out = NoOut

IdentityNext ==
    \/ IdentityOpen
    \/ IdentityCommand
    \/ IdentityClose

IdentitySpec == IdentityInit /\ [][IdentityNext]_vars

StrictOpen == sres.op = "open" /\ ~sres.force

\* C37: when a session is opened with strict identity required
\* (force = false), every transport that ends up open, reached through the
\* changer's own SCSITask child, the global SCSITask lookup or the
\* serial-bus fallback, belongs to a device whose vendor is "Sony" and
\* whose product is "VAIOChanger1"; otherwise the open fails and no command
\* is sent to any device.
C37_StrictIdentity ==
    StrictOpen =>
        /\ (spc = "opened" => sres.device = Sony)
        /\ \A i \in DOMAIN os : os[i].to = Sony

\* What the code does guarantee under strict identity: the changer nub it
\* selects is Sony VAIOChanger1, and with no such nub nothing is opened and
\* no command is sent.
StrictChangerNub ==
    (StrictOpen /\ sres.via # "none") => sres.changer = Sony

StrictNoChanger ==
    (StrictOpen /\ \A i \in DOMAIN dev.nubs : dev.nubs[i] # Sony)
        => (spc # "opened" /\ os = << >>)

\* The transport is the changer's own when it is the nub's SCSITask child,
\* and a lookup by vendor and product prefers an exact match.
StrictOwnChild ==
    (StrictOpen /\ sres.via = "child") => sres.device = Sony

StrictExactPreferred ==
    /\ (StrictOpen /\ sres.via = "global"
           /\ \E i \in DOMAIN dev.tasks : dev.tasks[i] = [id |-> Sony, usable |-> TRUE])
        => sres.device = Sony
    /\ (StrictOpen /\ sres.via = "sbp2"
           /\ \E i \in DOMAIN dev.luns : dev.luns[i] = Sony)
        => sres.device = Sony

\* The transport of another device is reached only through the fallbacks
\* of the two lookups by vendor and product.
StrictForeignOnlyByFallback ==
    (StrictOpen /\ sres.via # "none" /\ sres.device # Sony)
        => \/ sres.via = "global"
              /\ \A i \in DOMAIN dev.tasks : dev.tasks[i] # [id |-> Sony, usable |-> TRUE]
           \/ sres.via = "sbp2" /\ \A i \in DOMAIN dev.luns : dev.luns[i] # Sony

----------------------------------------------------------------------------
(***************************************************************************)
(* The bytes each element status parser reads.  For a buffer b and a       *)
(* length len the operators below give the set of indices buf[...] that    *)
(* parse_element_status_map, read_element_status_info and                  *)
(* parse_element_status evaluate, following their loops.  After a page     *)
(* every one of them continues at page_end: the descriptor loop leaves     *)
(* offset at or below page_end and 'if (offset < page_end) offset =        *)
(* page_end' lifts it there.                                               *)
(***************************************************************************)
MaxBody == 4

\* page_end = offset + page_bytes, clamped to len
PageEnd(first, page_bytes, len) ==
    IF first + page_bytes > len THEN len ELSE first + page_bytes

\* parse_element_status_map: the all_zero loop over buf[offset + i]
RECURSIVE FillerReads(_, _, _, _)
FillerReads(b, offset, i, desc_len) ==
    IF i >= desc_len THEN {}
    ELSE {offset + i} \cup (IF Byte(b, offset + i) # 0 THEN {}
                            ELSE FillerReads(b, offset, i + 1, desc_len))

\* parse_element_status_map: the descriptors of one page
RECURSIVE MapDescriptorReads(_, _, _, _, _)
MapDescriptorReads(b, offset, page_end, type, desc_len) ==
    IF offset + desc_len > page_end THEN {}
    ELSE IF desc_len < 2 THEN {}
    ELSE {offset, offset + 1}
         \cup (IF type = 2 /\ Be16(Byte(b, offset), Byte(b, offset + 1)) = 0
               THEN FillerReads(b, offset, 0, desc_len) ELSE {})
         \cup MapDescriptorReads(b, offset + desc_len, page_end, type, desc_len)

\* parse_element_status_map: the pages
RECURSIVE MapPageReads(_, _, _)
MapPageReads(b, len, offset) ==
    IF offset + 8 > len THEN {}
    ELSE LET type == Byte(b, offset) % 16
             desc_len == Be16(Byte(b, offset + 2), Byte(b, offset + 3))
             page_bytes == Byte(b, offset + 5) * 65536 + Be16(Byte(b, offset + 6),
                                                              Byte(b, offset + 7))
             page_end == PageEnd(offset + 8, page_bytes, len)
         IN {offset, offset + 2, offset + 3, offset + 5, offset + 6, offset + 7}
            \cup (IF desc_len = 0 \/ page_bytes = 0 THEN {}
                  ELSE MapDescriptorReads(b, offset + 8, page_end, type, desc_len)
                       \cup MapPageReads(b, len, page_end))

ParseElementStatusMapReads(b, len) ==
    IF len < 8 THEN {} ELSE MapPageReads(b, len, 8)

\* read_element_status_info and parse_element_status: the descriptors of one
\* page; elem_addr, elem_flags and, from 12 bytes on, svalid and the source
RECURSIVE StatusDescriptorReads(_, _, _)
StatusDescriptorReads(offset, page_end, desc_len) ==
    IF offset + desc_len > page_end THEN {}
    ELSE {offset, offset + 1, offset + 2}
         \cup (IF desc_len >= 12 THEN {offset + 9, offset + 10, offset + 11} ELSE {})
         \cup StatusDescriptorReads(offset + desc_len, page_end, desc_len)

\* read_element_status_info: the pages (the type byte is not looked at)
RECURSIVE StatusPageReads(_, _, _)
StatusPageReads(b, len, offset) ==
    IF offset + 8 > len THEN {}
    ELSE LET desc_len == Be16(Byte(b, offset + 2), Byte(b, offset + 3))
             page_bytes == Byte(b, offset + 5) * 65536 + Be16(Byte(b, offset + 6),
                                                              Byte(b, offset + 7))
             page_end == PageEnd(offset + 8, page_bytes, len)
         IN {offset + 2, offset + 3, offset + 5, offset + 6, offset + 7}
            \cup (IF desc_len = 0 \/ page_bytes = 0 THEN {}
                  ELSE StatusDescriptorReads(offset + 8, page_end, desc_len)
                       \cup StatusPageReads(b, len, page_end))

ReadElementStatusInfoReads(b, len) ==
    IF len < 8 THEN {} ELSE StatusPageReads(b, len, 8)

\* parse_element_status: the pages, with the type and the flags byte
RECURSIVE PrintPageReads(_, _, _)
PrintPageReads(b, len, offset) ==
    IF offset + 8 > len THEN {}
    ELSE LET desc_len == Be16(Byte(b, offset + 2), Byte(b, offset + 3))
             page_bytes == Byte(b, offset + 5) * 65536 + Be16(Byte(b, offset + 6),
                                                              Byte(b, offset + 7))
             page_end == PageEnd(offset + 8, page_bytes, len)
         IN {offset, offset + 1, offset + 2, offset + 3, offset + 5, offset + 6, offset + 7}
            \cup (IF desc_len = 0 \/ page_bytes = 0 THEN {}
                  ELSE StatusDescriptorReads(offset + 8, page_end, desc_len)
                       \cup PrintPageReads(b, len, page_end))

\* parse_element_status: the header, then the pages
ParseElementStatusReads(b, len) ==
    IF len < 8 THEN {} ELSE {0, 1, 2, 3, 5, 6, 7} \cup PrintPageReads(b, len, 8)

\* descriptor lengths a page header can declare, among them 0, 1 and 2
DeclaredDescLens == {0, 1, 2, 3, 4, 12}

\* the bytes after a page header: up to MaxBody bytes of 0 and 1, or 12 and
\* more bytes all alike
Bodies ==
    UNION {[1..n -> 0..1] : n \in 0..MaxBody}
    \cup {[i \in 1..n |-> v] : n \in 12..(12 + MaxBody), v \in 0..1}

\* responses of one page: the 8-byte header, a page header declaring any of
\* the descriptor lengths and a byte count of 0, of the body, or running
\* past the buffer, and the body; len is the buffer's length or below 8
ReadBuffers ==
    {[bytes |-> <<0, 0, 0, 1, 0, 0, 0, 8 + Len(body)>>
                \o <<type, 0, 0, desc_len, 0, 0, 0, page_bytes>> \o body,
      len |-> IF short THEN 4 ELSE 16 + Len(body),
      desc_len |-> desc_len, page_bytes |-> page_bytes] :
        type \in {2, 4}, desc_len \in DeclaredDescLens, body \in Bodies,
        page_bytes \in {0, 1, 4, 12, 255}, short \in BOOLEAN}

ReadsBy(parser, b, len) ==
    IF parser = "map" THEN ParseElementStatusMapReads(b, len)
    ELSE IF parser = "status" THEN ReadElementStatusInfoReads(b, len)
    ELSE ParseElementStatusReads(b, len)

\* one of the three parsers goes over the buffer
ReadsParse ==
    /\ pc = "idle"
    /\ \E parser \in {"map", "status", "print"} :
        out' = [op |-> "reads", rc |-> 0, parser |-> parser,
                reads |-> ReadsBy(parser, buf.bytes, buf.len)]
    /\ pc' = "done"
    /\ UNCHANGED <<dev, call, map, st, log, ret, buf>>
    /\ UNCHANGED sessVars

ReadsReturn ==
    /\ pc = "done"
    /\ pc' = "idle"
    /\ out' = NoOut
    /\ UNCHANGED <<dev, call, map, st, log, ret, buf>>
    /\ UNCHANGED sessVars

ReadsInit ==
    /\ dev = CHOOSE d \in Devices : ~d.allOk
    /\ pc = "idle"
    /\ call = NoCall
    /\ map = EmptyMap
    /\ st = NoRead
    /\ log = << >>
    /\ ret = 0
    /\ handle = NoHandle
    /\ os = << >>
    /\ spc = "init"
    /\ sres = NoResult
    /\ inflight = 0
    /\ buf \in ReadBuffers
    /\ out = NoOut

ReadsNext ==
    \/ ReadsParse
    \/ ReadsReturn

ReadsSpec == ReadsInit /\ [][ReadsNext]_vars

HasRead == pc = "done" /\ out.op = "reads"

\* C38: for every buffer content and every length len, each element status
\* parser (the map parser, the status reader, the printing parser) reads only
\* bytes at indices below len, also when a page declares a descriptor length
\* of 1 or 2 or a page byte count running past the buffer.
C38_BoundedReads ==
    HasRead => \A i \in out.reads : i < buf.len

\* What holds: the map parser stays below len for every input; the other two
\* stay below len unless the page declares a descriptor length of 1 or 2, and
\* then go at most two bytes past it; below 8 bytes nothing is read.
MapParserBounded ==
    (HasRead /\ out.parser = "map") => \A i \in out.reads : i < buf.len

ReadersBoundedFromThree ==
    (HasRead /\ buf.desc_len \notin {1, 2}) => \A i \in out.reads : i < buf.len

ReadersOvershootByTwo ==
    HasRead => \A i \in out.reads : i < buf.len + 2

ShortBufferUnread ==
    (HasRead /\ buf.len < 8) => out.reads = {}

\* the parser has returned
ModeSenseDone == out.op = "read_mode_sense_element"

\* C39: for every value of the block descriptor length in the response
\* header, the MODE SENSE parser either reports an out-of-range page offset
\* or reads the page header and its 16 payload bytes entirely inside the
\* 256-byte response buffer.
C39_BoundedModeSense ==
    ModeSenseDone =>
        \/ out.rc = 1
        \/ \A i \in out.reads : i < ModeSenseAlloc

\* What holds: the page header is read inside the buffer whenever the offset
\* is accepted; the payload is inside when it ends at or before byte 256; no
\* read goes further than 16 bytes past the buffer; a rejected offset reads
\* the mode parameter header only.
ModeSenseHeaderInside ==
    (ModeSenseDone /\ out.rc = 0) => buf.offset + 1 < ModeSenseAlloc

ModeSensePayloadInside ==
    (ModeSenseDone /\ buf.offset + 18 <= ModeSenseAlloc)
        => \A i \in out.reads : i < ModeSenseAlloc

ModeSenseOvershoot ==
    ModeSenseDone => \A i \in out.reads : i < ModeSenseAlloc + 16

ModeSenseRejectedUnread ==
    (ModeSenseDone /\ out.rc = 1) => out.reads = {0, 1, 6, 7}

----------------------------------------------------------------------------
(***************************************************************************)
(* The data-in commands as they are built: the bytes of the CDB and the    *)
(* length of the receive buffer passed to execute_cdb with it.             *)
(***************************************************************************)

\* (x >> shift) & 0xFF for shift = 0, 8, 16, 24
ByteAt(x, shift) == (x \div (2 ^ shift)) % 256

\* cmd_inquiry and mchanger_inquiry: cdb[4] = 96, buf[96]
CmdInquiry ==
    [name |-> "inquiry", cdb |-> <<18, 0, 0, 0, 96, 0>>, buffer_len |-> 96]

\* cmd_inquiry_vpd: uint16_t alloc = 512; cdb[4] = (uint8_t)alloc
CmdInquiryVpd(page) ==
    LET alloc == 512
    IN [name |-> "inquiry_vpd", cdb |-> <<18, 1, page, 0, alloc % 256, 0>>,
        buffer_len |-> alloc]

\* cmd_report_luns: uint32_t alloc = 512 in cdb[6..9]
CmdReportLuns ==
    LET alloc == 512
    IN [name |-> "report_luns",
        cdb |-> <<160, 0, 0, 0, 0, 0, ByteAt(alloc, 24), ByteAt(alloc, 16),
                  ByteAt(alloc, 8), ByteAt(alloc, 0), 0, 0>>,
        buffer_len |-> alloc]

\* cmd_log_sense: uint16_t alloc = 512 in cdb[7..8]
CmdLogSense(page) ==
    LET alloc == 512
    IN [name |-> "log_sense",
        cdb |-> <<77, 0, page % 64, 0, 0, 0, 0, ByteAt(alloc, 8), ByteAt(alloc, 0), 0>>,
        buffer_len |-> alloc]

\* read_mode_sense_element: uint16_t alloc = 256 in cdb[7..8]
CmdModeSenseElement ==
    [name |-> "mode_sense",
     cdb |-> <<90, 8, 29, 0, 0, 0, 0, ByteAt(ModeSenseAlloc, 8), ByteAt(ModeSenseAlloc, 0), 0>>,
     buffer_len |-> ModeSenseAlloc]

\* READ ELEMENT STATUS as every builder fills it: the type nibble, start and
\* count as 16 bits, alloc in cdb[6..8], and calloc(1, alloc) as the buffer
ReadElementStatusCdb(name, element_type, start, count, alloc) ==
    [name |-> name,
     cdb |-> <<184, element_type % 16, ByteAt(start, 8), ByteAt(start, 0),
               ByteAt(count, 8), ByteAt(count, 0),
               ByteAt(alloc, 16), ByteAt(alloc, 8), ByteAt(alloc, 0), 0, 0, 0>>,
     buffer_len |-> alloc]

\* read_element_status_info: all types, count 0xFFFF, alloc 4096
CmdReadElementStatusInfo ==
    ReadElementStatusCdb("read_element_status_info", 0, 0, 65535, StatusAlloc)

\* fetch_element_map: all types, then storage only, alloc 65535
CmdFetchElementMap(element_type, start, count) ==
    ReadElementStatusCdb("fetch_element_map", element_type, start, count, MapAlloc)

\* cmd_read_element_status: the arguments of 'read-element-status', --alloc
\* any uint32_t other than 0
CmdReadElementStatus(element_type, start, count, alloc) ==
    ReadElementStatusCdb("read_element_status", element_type, start, count, alloc)

\* the allocation length of a CDB, read from the bytes the builder of its
\* opcode writes it to: byte 4 of INQUIRY, bytes 6..9 of REPORT LUNS, bytes
\* 7..8 of LOG SENSE and MODE SENSE(10), bytes 6..8 of READ ELEMENT STATUS
AllocationLength(cdb) ==
    IF cdb[1] = 18 THEN cdb[5]
    ELSE IF cdb[1] = 160
    THEN ((cdb[7] * 256 + cdb[8]) * 256 + cdb[9]) * 256 + cdb[10]
    ELSE IF cdb[1] \in {77, 90} THEN cdb[8] * 256 + cdb[9]
    ELSE (cdb[7] * 256 + cdb[8]) * 256 + cdb[9]

\* --alloc values: small, the fixed ones, and around 2^24
CliAllocs == {8, StatusAlloc, MapAlloc, 2 ^ 24 - 1, 2 ^ 24, 2 ^ 24 + StatusAlloc}

VpdPages == {0, 128, 131}

BuiltCommands ==
    {CmdInquiry, CmdReportLuns, CmdModeSenseElement, CmdReadElementStatusInfo}
    \cup {CmdInquiryVpd(page) : page \in VpdPages}
    \cup {CmdLogSense(page) : page \in {0, 46, 110}}
    \cup {CmdFetchElementMap(t, s, c) : t \in {0, 2}, s \in 0..1, c \in {1, MaxSlots, 65535}}
    \cup {CmdReadElementStatus(t, s, c, a) :
             t \in 0..4, s \in 0..1, c \in {0, 1, 65535}, a \in CliAllocs}

\* a command is built and handed to execute_cdb with its buffer
CdbBuild ==
    /\ pc = "idle"
    /\ \E c \in BuiltCommands :
        out' = [op |-> "cdb", rc |-> 0, name |-> c.name, cdb |-> c.cdb,
                buffer_len |-> c.buffer_len]
    /\ pc' = "done"
    /\ UNCHANGED <<dev, call, map, st, log, ret, buf>>
    /\ UNCHANGED sessVars

CdbReturn ==
    /\ pc = "done"
    /\ pc' = "idle"
    /\ out' = NoOut
    /\ UNCHANGED <<dev, call, map, st, log, ret, buf>>
    /\ UNCHANGED sessVars

CdbInit ==
    /\ dev = CHOOSE d \in Devices : ~d.allOk
    /\ pc = "idle"
    /\ call = NoCall
    /\ map = EmptyMap
    /\ st = NoRead
    /\ log = << >>
    /\ ret = 0
    /\ handle = NoHandle
    /\ os = << >>
    /\ spc = "init"
    /\ sres = NoResult
    /\ inflight = 0
    /\ buf = NoPage
    /\ out = NoOut

CdbNext ==
    \/ CdbBuild
    \/ CdbReturn

CdbSpec == CdbInit /\ [][CdbNext]_vars

Built == pc = "done" /\ out.op = "cdb"

\* C40: for every data-in command the engine builds (INQUIRY, INQUIRY VPD,
\* REPORT LUNS, LOG SENSE, MODE SENSE, READ ELEMENT STATUS), the allocation
\* length encoded in the CDB's allocation-length field equals the length of
\* the receive buffer handed to the transport.
C40_AllocationNotTruncated ==
    Built => AllocationLength(out.cdb) = out.buffer_len

\* What holds: the field equals the buffer length for every builder but
\* INQUIRY VPD and, from 2^24 on, the command-line READ ELEMENT STATUS; for
\* those it is the buffer length modulo the width of the field.
AllocationExact ==
    (Built /\ out.name # "inquiry_vpd"
           /\ ~(out.name = "read_element_status" /\ out.buffer_len >= 2 ^ 24))
        => AllocationLength(out.cdb) = out.buffer_len

AllocationModuloWidth ==
    /\ (Built /\ out.name = "inquiry_vpd")
          => (out.buffer_len = 512 /\ AllocationLength(out.cdb) = 0)
    /\ (Built /\ out.name = "read_element_status")
          => AllocationLength(out.cdb) = out.buffer_len % (2 ^ 24)

AllocationNeverLarger ==
    Built => AllocationLength(out.cdb) <= out.buffer_len

====
